---- MODULE Spec2Model ----
(***************************************************************************)
(* Model of sparkler: the network-namespace manager                        *)
(* (network/namespace.rs), the file-lock and bind-mount helpers (util.rs)  *)
(* and the VM orchestrator (main.rs).  One action per system call or       *)
(* control step of the code; the kernel's answer to each system call is    *)
(* chosen non-deterministically among the answers it can give in the       *)
(* current state.                                                          *)
(***************************************************************************)
EXTENDS Naturals, Sequences, FiniteSets, TLC

VARIABLES
    pc,           \* control point of the (single) orchestrating thread
    stack,        \* return labels of the calls in progress
    ret,          \* result of the call that returned last
    arg,          \* `name` argument of the create/delete in progress
    call,         \* namespace-manager call in progress or just returned
    prev,         \* the namespace-manager call before it, with its result
    pending,      \* result a function will return once its guards are dropped
    trace,        \* system calls and calls issued so far, in order
    dirExists,    \* /var/run/netns exists
    dirMounts,    \* number of mounts stacked on /var/run/netns
    dirShared,    \* /var/run/netns has shared propagation
    lockHeld,     \* the flock on /var/run/netns is held
    nsFile,       \* name -> the file /var/run/netns/<name> exists
    nsMount,      \* name -> namespace bind-mounted on that file, or NoNs
    curNs,        \* network namespace the thread is in
    saved,        \* namespace held by the NamespaceGuard, or NoNs
    entryNs,      \* namespace the thread was in when create was called
    imageDir,     \* <chroot>/image exists
    imageMounts,  \* how many bind mounts of ./image are stacked on <chroot>/image
    stateDir,     \* the jail state directory (parent of <chroot>) exists
    process,      \* jailer child: none, running, killed, reaped
    vmState,      \* the VmState value: none, owned (by main), moved (into cleanup_vm)
    attempts,     \* socket existence checks made by run
    exists,       \* run's local `exists`
    runError,     \* main's binding of the error run returned
    reported,     \* messages logged with error!
    exitCode,     \* process exit status, or NoExit while running
    lpc,          \* process -> control point of its create (concurrent callers)
    lret,         \* process -> what its prepare_runtime_directory returned
    lpending,     \* process -> result its prepare_runtime_directory will return
    holders,      \* processes holding the flock on /var/run/netns
    binders,      \* processes whose self bind mount of /var/run/netns succeeded
    client,       \* the Client: its socket_path
    apiPc,        \* position of the client operation in progress
    apiCall,      \* the operation invoked and its argument
    apiSent,      \* HTTP requests sent by the operation in progress
    apiResp,      \* the response to the last request
    apiResult,    \* what the operation returned
    config,       \* the jailer Config in use
    jail,         \* the command and the paths derived from the Config so far
    cni           \* a CNI document: the value, its JSON and the value decoded from it

vars == <<pc, stack, ret, arg, call, prev, pending, trace, dirExists, dirMounts,
          dirShared, lockHeld, nsFile, nsMount, curNs, saved, entryNs, imageDir,
          imageMounts, stateDir, process, vmState, attempts, exists, runError,
          reported, exitCode, lpc, lret, lpending, holders, binders, client, apiPc,
          apiCall, apiSent, apiResp, apiResult, config, jail, cni>>

nsVars == <<dirExists, dirMounts, dirShared, lockHeld, nsFile, nsMount, curNs,
            saved, entryNs>>
vmVars == <<imageDir, imageMounts, stateDir, process, vmState, attempts, exists,
            runError, reported, exitCode>>
orchVars == <<pc, stack, ret, arg, call, prev, pending, trace>>
lockVars == <<lpc, lret, lpending, holders, binders>>
apiVars == <<client, apiPc, apiCall, apiSent, apiResp, apiResult>>
\* State of the components the orchestrating thread never touches.
jailVars == <<config, jail>>
cniVars == <<cni>>
sideVars == <<lockVars, apiVars, jailVars, cniVars>>

\* A bind mount of ./image is in place on <chroot>/image
imageMounted == imageMounts # 0

----------------------------------------------------------------------------
(* Names and values *)

NETWORK_NAMESPACE == "test"
Names == {NETWORK_NAMESPACE, "other"}

HostNs == "host"
NoNs == "none"
\* Identities the kernel can give to new namespaces: one per name that can be
\* bound, and one for a namespace that is current but not yet bound.
NewNamespaces == {"ns1", "ns2", "ns3"}

NoExit == "running"
NoCall == [op |-> "none", name |-> "none", res |-> "none", file |-> FALSE, bound |-> NoNs]

Ok == [kind |-> "Ok", context |-> "", cause |-> ""]
Err(kind, context, cause) == [kind |-> kind, context |-> context, cause |-> cause]
IsOk(r) == r.kind = "Ok"

Ev(fn, op, res) == [fn |-> fn, op |-> op, res |-> res]
Log(e) == trace' = Append(trace, e)

\* Function call and return.
Call(target, retLabel) ==
    /\ pc' = target
    /\ stack' = <<retLabel>> \o stack

Return(result) ==
    /\ pc' = Head(stack)
    /\ stack' = Tail(stack)
    /\ ret' = result

\* A panic unwinds every frame: spawn_blocking's JoinHandle yields an Err that
\* main unwraps, which panics the main thread and ends the process.
Panic_Continues ==
    /\ pc' = Head(stack)
    /\ stack' = Tail(stack)
Panic ==
    /\ pc' = "aborted"
    /\ stack' = <<>>

----------------------------------------------------------------------------
(* Kernel answers *)

Live == ({curNs, saved} \cup {nsMount[n] : n \in Names}) \ {NoNs}
FreshCandidates == NewNamespaces \ Live
FreshNs == CHOOSE n \in FreshCandidates : TRUE

MkdirOutcomes == IF dirExists THEN {"EEXIST"} ELSE {"Ok", "EACCES"}
OpenDirOutcomes == {"Ok", "EMFILE"}
FlockOutcomes == {"Ok", "EINTR"}
\* mount(MS_SHARED | MS_REC) on a directory that is no mount point is EINVAL.
SetPropagationOutcomes == IF dirMounts = 0 THEN {"EINVAL", "EPERM"} ELSE {"Ok", "EPERM"}
BindDirOutcomes == {"Ok", "EPERM"}
UnlockOutcomes == {"Ok", "EBADF"}
\* open(O_CREAT | O_EXCL)
CreateNewOutcomes_NotExclusive(n) == {"Ok", "EACCES"}
CreateNewOutcomes(n) == IF nsFile[n] THEN {"EEXIST"} ELSE {"Ok", "EACCES"}
OpenNsOutcomes == {"Ok", "EMFILE"}
UnshareOutcomes == IF FreshCandidates = {} THEN {"ENOSPC"} ELSE {"Ok", "ENOSPC"}
BindNsOutcomes == {"Ok", "EPERM"}
RemoveFileOutcomes(n) ==
    IF ~nsFile[n] THEN {"ENOENT"}
    ELSE IF nsMount[n] # NoNs THEN {"EBUSY"}
    ELSE {"Ok", "EACCES"}
SetnsOutcomes == {"Ok", "EPERM"}
UmountNsOutcomes(n) ==
    IF nsMount[n] # NoNs THEN {"Ok", "EPERM"}
    ELSE IF nsFile[n] THEN {"EINVAL"}
    ELSE {"ENOENT"}

----------------------------------------------------------------------------
(* prepare_runtime_directory *)

\* Step 1: DirBuilder::create, tolerating AlreadyExists.
PrepMkdir ==
    /\ pc = "prep_mkdir"
    /\ \E r \in MkdirOutcomes :
        /\ Log(Ev("prepare", "mkdir", r))
        /\ dirExists' = (dirExists \/ r = "Ok")
        /\ IF r \in {"Ok", "EEXIST"}
           THEN pc' = "prep_open" /\ UNCHANGED <<stack, ret>>
           ELSE Return(Err("Io", "could not create /var/run/netns", r))
    /\ UNCHANGED <<arg, call, prev, pending, dirMounts, dirShared, lockHeld, nsFile,
                   nsMount, curNs, saved, entryNs>>
    /\ UNCHANGED vmVars
    /\ UNCHANGED sideVars

\* Step 2: open the directory ...
PrepOpen ==
    /\ pc = "prep_open"
    /\ \E r \in OpenDirOutcomes :
        /\ Log(Ev("prepare", "open_dir", r))
        /\ IF r = "Ok"
           THEN pc' = "prep_lock" /\ UNCHANGED <<stack, ret>>
           ELSE Return(Err("Io", "could not open /var/run/netns", r))
    /\ UNCHANGED <<arg, call, prev, pending>>
    /\ UNCHANGED nsVars
    /\ UNCHANGED vmVars
    /\ UNCHANGED sideVars

\* ... and take the exclusive lock (FileLock::new).
PrepLock ==
    /\ pc = "prep_lock"
    /\ ~lockHeld
    /\ \E r \in FlockOutcomes :
        /\ Log(Ev("prepare", "flock", r))
        /\ lockHeld' = (r = "Ok")
        /\ IF r = "Ok"
           THEN pc' = "prep_setprop" /\ UNCHANGED <<stack, ret>>
           ELSE Return(Err("System", "could not lock /var/run/netns", r))
    /\ UNCHANGED <<arg, call, prev, pending, dirExists, dirMounts, dirShared, nsFile,
                   nsMount, curNs, saved, entryNs>>
    /\ UNCHANGED vmVars
    /\ UNCHANGED sideVars

\* match set_propagation() { Err(nix::Error::Sys(Errno::EINVAL)) => bind, .. }
BindNeeded_AnyError(r) == r # "Ok"
BindNeeded(r) == r = "EINVAL"

\* Step 3: set_propagation; EINVAL leads to the self bind mount.
PrepSetPropagation ==
    /\ pc = "prep_setprop"
    /\ \E r \in SetPropagationOutcomes :
        /\ Log(Ev("prepare", "set_propagation", r))
        /\ dirShared' = (dirShared \/ r = "Ok")
        /\ pc' = IF BindNeeded(r) THEN "prep_bind" ELSE "prep_unlock"
        /\ pending' = IF r = "Ok" \/ BindNeeded(r) THEN Ok
                      ELSE Err("System", "could not set mount propagation on /var/run/netns", r)
    /\ UNCHANGED <<stack, ret, arg, call, prev, dirExists, dirMounts, lockHeld, nsFile,
                   nsMount, curNs, saved, entryNs>>
    /\ UNCHANGED vmVars
    /\ UNCHANGED sideVars

\* bind_mount_flags(dir, dir, MS_REC)?
PrepBind ==
    /\ pc = "prep_bind"
    /\ \E r \in BindDirOutcomes :
        /\ Log(Ev("prepare", "bind_dir", r))
        /\ dirMounts' = IF r = "Ok" THEN dirMounts + 1 ELSE dirMounts
        /\ pc' = IF r = "Ok" THEN "prep_retry" ELSE "prep_unlock"
        /\ pending' = IF r = "Ok" THEN Ok
                      ELSE Err("System", "could not bind /var/run/netns to /var/run/netns", r)
    /\ UNCHANGED <<stack, ret, arg, call, prev, dirExists, dirShared, lockHeld, nsFile,
                   nsMount, curNs, saved, entryNs>>
    /\ UNCHANGED vmVars
    /\ UNCHANGED sideVars

\* set_propagation()? after the bind mount.
PrepRetry ==
    /\ pc = "prep_retry"
    /\ \E r \in SetPropagationOutcomes :
        /\ Log(Ev("prepare", "set_propagation", r))
        /\ dirShared' = (dirShared \/ r = "Ok")
        /\ pc' = "prep_unlock"
        /\ pending' = IF r = "Ok" THEN Ok
                      ELSE Err("System", "could not set mount propagation on /var/run/netns", r)
    /\ UNCHANGED <<stack, ret, arg, call, prev, dirExists, dirMounts, lockHeld, nsFile,
                   nsMount, curNs, saved, entryNs>>
    /\ UNCHANGED vmVars
    /\ UNCHANGED sideVars

\* FileLock::drop: `if let Err(err) = flock(..) { eprintln!(..) }`, the value the
\* function returns is untouched.
UnlockResult_Propagated(result, r) ==
    IF r = "Ok" THEN result ELSE Err("System", "could not unlock /var/run/netns", r)
UnlockResult(result, r) == result

\* Scope exit: _lock is dropped (flock unlock, a failure is only printed), then
\* lock_file is closed, which releases the lock with the descriptor.
PrepUnlock ==
    /\ pc = "prep_unlock"
    /\ \E r \in UnlockOutcomes :
        /\ Log(Ev("prepare", "unlock", r))
        /\ lockHeld' = FALSE
        /\ Return(UnlockResult(pending, r))
    /\ UNCHANGED <<arg, call, prev, pending, dirExists, dirMounts, dirShared, nsFile,
                   nsMount, curNs, saved, entryNs>>
    /\ UNCHANGED vmVars
    /\ UNCHANGED sideVars

PrepareActions ==
    \/ PrepMkdir
    \/ PrepOpen
    \/ PrepLock
    \/ PrepSetPropagation
    \/ PrepBind
    \/ PrepRetry
    \/ PrepUnlock

----------------------------------------------------------------------------
(* create *)

\* create(name) starts with prepare_runtime_directory()?.
CreateEnter ==
    /\ pc = "create"
    /\ entryNs' = curNs
    /\ Log(Ev("create", "enter", IF nsFile[arg] THEN "file_exists" ELSE "no_file"))
    /\ Call("prep_mkdir", "create_prepared")
    /\ UNCHANGED <<ret, arg, call, prev, pending, dirExists, dirMounts, dirShared,
                   lockHeld, nsFile, nsMount, curNs, saved>>
    /\ UNCHANGED vmVars
    /\ UNCHANGED sideVars

CreatePrepared ==
    /\ pc = "create_prepared"
    /\ IF IsOk(ret)
       THEN pc' = "create_open" /\ UNCHANGED <<stack, ret>>
       ELSE Return(ret)
    /\ UNCHANGED <<arg, call, prev, pending, trace>>
    /\ UNCHANGED nsVars
    /\ UNCHANGED vmVars
    /\ UNCHANGED sideVars

\* Step 1: OpenOptions::new().write(true).create_new(true).open(path)?
CreateOpen ==
    /\ pc = "create_open"
    /\ \E r \in CreateNewOutcomes(arg) :
        /\ Log(Ev("create", "create_new", r))
        /\ nsFile' = IF r = "Ok" THEN [nsFile EXCEPT ![arg] = TRUE] ELSE nsFile
        /\ IF r = "Ok"
           THEN pc' = "create_guard" /\ UNCHANGED <<stack, ret>>
           ELSE Return(Err("Io", "could not create network namespace file", r))
    /\ UNCHANGED <<arg, call, prev, pending, dirExists, dirMounts, dirShared, lockHeld,
                   nsMount, curNs, saved, entryNs>>
    /\ UNCHANGED vmVars
    /\ UNCHANGED sideVars

\* Step 2.0: NamespaceGuard::from_current()?
CreateGuard ==
    /\ pc = "create_guard"
    /\ \E r \in OpenNsOutcomes :
        /\ Log(Ev("create", "save_ns", r))
        /\ saved' = IF r = "Ok" THEN curNs ELSE saved
        /\ IF r = "Ok"
           THEN pc' = "create_unshare" /\ UNCHANGED <<stack, ret>>
           ELSE Return(Err("Io", "could not open current network namespace", r))
    /\ UNCHANGED <<arg, call, prev, pending, dirExists, dirMounts, dirShared, lockHeld,
                   nsFile, nsMount, curNs, entryNs>>
    /\ UNCHANGED vmVars
    /\ UNCHANGED sideVars

\* Step 2: sched::unshare(CLONE_NEWNET)?; the guard is dropped on the error path.
CreateUnshare ==
    /\ pc = "create_unshare"
    /\ \E r \in UnshareOutcomes :
        /\ Log(Ev("create", "unshare", r))
        /\ curNs' = IF r = "Ok" THEN FreshNs ELSE curNs
        /\ pc' = IF r = "Ok" THEN "create_bind" ELSE "create_drop"
        /\ pending' = IF r = "Ok" THEN pending
                      ELSE Err("System", "could not create a new network namespace", r)
    /\ UNCHANGED <<stack, ret, arg, call, prev, dirExists, dirMounts, dirShared, lockHeld,
                   nsFile, nsMount, saved, entryNs>>
    /\ UNCHANGED vmVars
    /\ UNCHANGED sideVars

\* What /proc/self/ns/net names when the bind mount is made: the network
\* namespace the thread is in at that moment.
ProcSelfNsNet_Saved == saved
ProcSelfNsNet == curNs

\* Step 2.5: bind_mount("/proc/self/ns/net", path): the thread's current
\* namespace becomes bound to the file.
CreateBind ==
    /\ pc = "create_bind"
    /\ \E r \in BindNsOutcomes :
        /\ Log(Ev("create", "bind_ns", r))
        /\ nsMount' = IF r = "Ok" THEN [nsMount EXCEPT ![arg] = ProcSelfNsNet] ELSE nsMount
        /\ pc' = IF r = "Ok" THEN "create_drop" ELSE "create_remove"
        /\ pending' = IF r = "Ok" THEN Ok
                      ELSE Err("System", "could not bind /proc/self/ns/net", r)
    /\ UNCHANGED <<stack, ret, arg, call, prev, dirExists, dirMounts, dirShared, lockHeld,
                   nsFile, curNs, saved, entryNs>>
    /\ UNCHANGED vmVars
    /\ UNCHANGED sideVars

\* What create returns after the best-effort removal: return Err(error), the
\* bind-mount error, whatever remove_file answered.
RemovalResult_Masking(error, r) ==
    IF r = "Ok" THEN error ELSE Err("Io", "could not clean up namespace file", r)
RemovalResult(error, r) == error

\* The bind mount failed: fs::remove_file(path), a failure is only printed.
CreateRemove ==
    /\ pc = "create_remove"
    /\ \E r \in RemoveFileOutcomes(arg) :
        /\ Log(Ev("create", "remove_file", r))
        /\ nsFile' = IF r = "Ok" THEN [nsFile EXCEPT ![arg] = FALSE] ELSE nsFile
        /\ pending' = RemovalResult(pending, r)
        /\ pc' = "create_drop"
    /\ UNCHANGED <<stack, ret, arg, call, prev, dirExists, dirMounts, dirShared,
                   lockHeld, nsMount, curNs, saved, entryNs>>
    /\ UNCHANGED vmVars
    /\ UNCHANGED sideVars

\* The namespace setns switches to when the guard is dropped: the saved one.
GuardRestoreTarget_NotRestored == curNs
GuardRestoreTarget == saved

\* Scope exit: NamespaceGuard::drop, setns(saved).expect(..), then the return.
CreateDrop ==
    /\ pc = "create_drop"
    /\ \E r \in SetnsOutcomes :
        /\ Log(Ev("create", "setns", r))
        /\ IF r = "Ok"
           THEN /\ curNs' = GuardRestoreTarget
                /\ saved' = NoNs
                /\ Return(pending)
           ELSE /\ Panic
                /\ UNCHANGED <<ret, curNs, saved>>
    /\ UNCHANGED <<arg, call, prev, pending, dirExists, dirMounts, dirShared, lockHeld,
                   nsFile, nsMount, entryNs>>
    /\ UNCHANGED vmVars
    /\ UNCHANGED sideVars

CreateActions ==
    \/ CreateEnter
    \/ CreatePrepared
    \/ CreateOpen
    \/ CreateGuard
    \/ CreateUnshare
    \/ CreateBind
    \/ CreateRemove
    \/ CreateDrop

----------------------------------------------------------------------------
(* delete *)

\* let _ = umount2(..): every answer of the unmount lets delete go on.
UmountTolerated_Propagated(r) == r = "Ok"
UmountTolerated(r) == TRUE

\* let _ = umount2(path, MNT_DETACH): the result is discarded.
DeleteUmount ==
    /\ pc = "delete"
    /\ \E r \in UmountNsOutcomes(arg) :
        /\ Log(Ev("delete", "umount", r))
        /\ nsMount' = IF r = "Ok" THEN [nsMount EXCEPT ![arg] = NoNs] ELSE nsMount
        /\ IF UmountTolerated(r)
           THEN pc' = "delete_remove" /\ UNCHANGED <<stack, ret>>
           ELSE Return(Err("System", "could not unmount namespace file", r))
    /\ UNCHANGED <<arg, call, prev, pending, dirExists, dirMounts, dirShared,
                   lockHeld, nsFile, curNs, saved, entryNs>>
    /\ UNCHANGED vmVars
    /\ UNCHANGED sideVars

\* What delete returns for the outcome of fs::remove_file.
DeleteResult_Swallowed(r) == Ok
DeleteResult(r) ==
    IF r = "Ok" THEN Ok ELSE Err("Io", "could not remove namespace file", r)

\* fs::remove_file(path).map_err(..)
DeleteRemove ==
    /\ pc = "delete_remove"
    /\ \E r \in RemoveFileOutcomes(arg) :
        /\ Log(Ev("delete", "remove_file", r))
        /\ nsFile' = IF r = "Ok" THEN [nsFile EXCEPT ![arg] = FALSE] ELSE nsFile
        /\ Return(DeleteResult(r))
    /\ UNCHANGED <<arg, call, prev, pending, dirExists, dirMounts, dirShared, lockHeld,
                   nsMount, curNs, saved, entryNs>>
    /\ UNCHANGED vmVars
    /\ UNCHANGED sideVars

DeleteActions ==
    \/ DeleteUmount
    \/ DeleteRemove

----------------------------------------------------------------------------
(* A client of the namespace manager: any sequence of create and delete     *)
(* calls, on any names.                                                    *)

DriverCall ==
    /\ pc = "driver"
    /\ \E op \in {"create", "delete"}, n \in Names :
        /\ arg' = n
        /\ prev' = call
        /\ call' = [op |-> op, name |-> n, res |-> "pending",
                    file |-> nsFile[n], bound |-> nsMount[n]]
        /\ Call(op, "driver_ret")
    /\ trace' = <<>>
    /\ UNCHANGED <<ret, pending>>
    /\ UNCHANGED nsVars
    /\ UNCHANGED vmVars
    /\ UNCHANGED sideVars

DriverReturn ==
    /\ pc = "driver_ret"
    /\ call' = [call EXCEPT !.res = ret.kind]
    /\ pc' = "driver"
    /\ UNCHANGED <<stack, ret, arg, prev, pending, trace>>
    /\ UNCHANGED nsVars
    /\ UNCHANGED vmVars
    /\ UNCHANGED sideVars

\* Host states a call can start from: the runtime directory absent, present,
\* or already a (shared) mount point; a namespace file left by an earlier
\* process, bound or not.
HostInit ==
    /\ \E d \in {"absent", "plain", "mounted", "shared"} :
        /\ dirExists = (d # "absent")
        /\ dirMounts = IF d \in {"mounted", "shared"} THEN 1 ELSE 0
        /\ dirShared = (d = "shared")
        /\ \E left \in {"none", "file", "bound"} :
            /\ left # "none" => d # "absent"
            /\ nsFile = [n \in Names |-> n = NETWORK_NAMESPACE /\ left # "none"]
            /\ nsMount = [n \in Names |->
                            IF n = NETWORK_NAMESPACE /\ left = "bound" THEN "ns1" ELSE NoNs]
    /\ lockHeld = FALSE
    /\ curNs = HostNs
    /\ saved = NoNs
    /\ entryNs = HostNs

\* The jail directories as a start of the program finds them: absent, or left
\* by an earlier run that ended before remove_dir_all succeeded ("dirs"), or
\* before its umount2 of the image directory succeeded ("mounted").
VmStart(left) ==
    /\ imageDir = (left # "none")
    /\ imageMounts = IF left = "mounted" THEN 1 ELSE 0
    /\ stateDir = (left # "none")
    /\ process = "none"
    /\ vmState = "none"
    /\ attempts = 0
    /\ exists = FALSE
    /\ runError = Ok
    /\ reported = <<>>
    /\ exitCode = NoExit

VmInit == VmStart("none")

\* Two independent processes that call create at the same time.
Procs == {"p1", "p2"}

\* The concurrent callers and the API client are not part of this run.
SideInit ==
    /\ lpc = [p \in Procs |-> "idle"]
    /\ lret = [p \in Procs |-> Ok]
    /\ lpending = [p \in Procs |-> Ok]
    /\ holders = {}
    /\ binders = {}
    /\ client = [socket_path |-> "none"]
    /\ apiPc = "idle"
    /\ apiCall = [op |-> "none"]
    /\ apiSent = <<>>
    /\ apiResp = [kind |-> "none"]
    /\ apiResult = [variant |-> "none"]
    /\ config = [id |-> <<>>]
    /\ jail = [pc |-> "idle"]
    /\ cni = [pc |-> "idle"]

InitNs ==
    /\ pc = "driver"
    /\ stack = <<>>
    /\ ret = Ok
    /\ arg = NETWORK_NAMESPACE
    /\ call = NoCall
    /\ prev = NoCall
    /\ pending = Ok
    /\ trace = <<>>
    /\ HostInit
    /\ VmInit
    /\ SideInit

NextNs ==
    \/ DriverCall
    \/ DriverReturn
    \/ PrepareActions
    \/ CreateActions
    \/ DeleteActions

SpecNs == InitNs /\ [][NextNs]_vars

----------------------------------------------------------------------------
(* main.rs: setup_vm *)

ApiErr(variant, message) == [kind |-> "Api", context |-> variant, cause |-> message]

CreateDirAllOutcomes == {"Ok", "EACCES"}
BindImageOutcomes == {"Ok", "EPERM"}
SpawnOutcomes == {"Ok", "ENOENT"}

\* build_command(config).spawn().map_err(Error::Jailer)
SpawnError_AsIo(r) == Err("Io", "jailer error", r)
SpawnError(r) == Err("Jailer", "jailer error", r)

\* network::namespace::create(NETWORK_NAMESPACE)
SetupCreate ==
    /\ pc = "setup_vm"
    /\ arg' = NETWORK_NAMESPACE
    /\ Log(Ev("setup_vm", "create", NETWORK_NAMESPACE))
    /\ Call("create", "setup_created")
    /\ UNCHANGED <<ret, call, prev, pending>>
    /\ UNCHANGED nsVars
    /\ UNCHANGED vmVars
    /\ UNCHANGED sideVars

\* The `?` on create's result.
SetupCreated ==
    /\ pc = "setup_created"
    /\ Log(Ev("setup_vm", "create_returned", ret.kind))
    /\ IF IsOk(ret)
       THEN pc' = "setup_mkdir" /\ UNCHANGED <<stack, ret>>
       ELSE Return(ret)
    /\ UNCHANGED <<arg, call, prev, pending>>
    /\ UNCHANGED nsVars
    /\ UNCHANGED vmVars
    /\ UNCHANGED sideVars

\* fs::create_dir_all(<chroot>/image)?
SetupMkdir ==
    /\ pc = "setup_mkdir"
    /\ \E r \in CreateDirAllOutcomes :
        /\ Log(Ev("setup_vm", "create_dir_all", r))
        /\ imageDir' = (imageDir \/ r = "Ok")
        /\ stateDir' = (stateDir \/ r = "Ok")
        /\ IF r = "Ok"
           THEN pc' = "setup_bind" /\ UNCHANGED <<stack, ret>>
           ELSE Return(Err("Io", "could not create image directory", r))
    /\ UNCHANGED <<arg, call, prev, pending, imageMounts, process, vmState, attempts,
                   exists, runError, reported, exitCode>>
    /\ UNCHANGED nsVars
    /\ UNCHANGED sideVars

\* util::bind_mount("./image", <chroot>/image)?
SetupBind ==
    /\ pc = "setup_bind"
    /\ \E r \in BindImageOutcomes :
        /\ Log(Ev("setup_vm", "bind_image", r))
        /\ imageMounts' = IF r = "Ok" THEN imageMounts + 1 ELSE imageMounts
        /\ IF r = "Ok"
           THEN pc' = "setup_spawn" /\ UNCHANGED <<stack, ret>>
           ELSE Return(Err("System", "could not bind ./image", r))
    /\ UNCHANGED <<arg, call, prev, pending, imageDir, stateDir, process, vmState, attempts,
                   exists, runError, reported, exitCode>>
    /\ UNCHANGED nsVars
    /\ UNCHANGED sideVars

\* jailer::spawn(&jailer_config)? and Ok(VmState { .. })
SetupSpawn ==
    /\ pc = "setup_spawn"
    /\ \E r \in SpawnOutcomes :
        /\ Log(Ev("setup_vm", "spawn", r))
        /\ process' = IF r = "Ok" THEN "running" ELSE process
        /\ vmState' = IF r = "Ok" THEN "owned" ELSE vmState
        /\ Return(IF r = "Ok" THEN Ok ELSE SpawnError(r))
    /\ UNCHANGED <<arg, call, prev, pending, imageDir, imageMounts, stateDir, attempts,
                   exists, runError, reported, exitCode>>
    /\ UNCHANGED nsVars
    /\ UNCHANGED sideVars

SetupActions ==
    \/ SetupCreate
    \/ SetupCreated
    \/ SetupMkdir
    \/ SetupBind
    \/ SetupSpawn

----------------------------------------------------------------------------
(* main.rs: run *)

\* for _ in 0u8..10
SocketAttempts == 10

LoopContinues_OffByOne(i) == i <= SocketAttempts
LoopContinues(i) == i < SocketAttempts

SocketChecks == {"found", "missing"}
InfoOutcomes == {"Ok", "Transport", "InvalidJson", "UnexpectedResponse", "Client", "Server"}

\* Head of the for loop.
RunLoop ==
    /\ pc = "run"
    /\ pc' = IF LoopContinues(attempts) THEN "run_check" ELSE "run_after_loop"
    /\ UNCHANGED <<stack, ret, arg, call, prev, pending, trace>>
    /\ UNCHANGED nsVars
    /\ UNCHANGED vmVars
    /\ UNCHANGED sideVars

\* if socket_path.exists() { exists = true; break; }
RunCheck ==
    /\ pc = "run_check"
    /\ \E r \in SocketChecks :
        /\ Log(Ev("run", "socket_exists", r))
        /\ attempts' = attempts + 1
        /\ exists' = (r = "found")
        /\ pc' = IF r = "found" THEN "run_after_loop" ELSE "run_sleep"
    /\ UNCHANGED <<stack, ret, arg, call, prev, pending, imageDir, imageMounts, stateDir,
                   process, vmState, runError, reported, exitCode>>
    /\ UNCHANGED nsVars
    /\ UNCHANGED sideVars

\* time::sleep(Duration::from_secs(1)).await
RunSleep ==
    /\ pc = "run_sleep"
    /\ Log(Ev("run", "sleep", "1s"))
    /\ pc' = "run"
    /\ UNCHANGED <<stack, ret, arg, call, prev, pending>>
    /\ UNCHANGED nsVars
    /\ UNCHANGED vmVars
    /\ UNCHANGED sideVars

\* if !exists { return Err(Api(Server { .. })) }; otherwise Client::new.
RunAfterLoop ==
    /\ pc = "run_after_loop"
    /\ IF exists
       THEN pc' = "run_info" /\ UNCHANGED <<stack, ret>>
       ELSE Return(ApiErr("Server", "timed out waiting for socket to exist"))
    /\ UNCHANGED <<arg, call, prev, pending, trace>>
    /\ UNCHANGED nsVars
    /\ UNCHANGED vmVars
    /\ UNCHANGED sideVars

\* client.instance_info().await?  (the only call that is not commented out)
RunInfo ==
    /\ pc = "run_info"
    /\ \E r \in InfoOutcomes :
        /\ Log(Ev("run", "instance_info", r))
        /\ Return(IF r = "Ok" THEN Ok ELSE ApiErr(r, "instance_info"))
    /\ UNCHANGED <<arg, call, prev, pending>>
    /\ UNCHANGED nsVars
    /\ UNCHANGED vmVars
    /\ UNCHANGED sideVars

RunActions ==
    \/ RunLoop
    \/ RunCheck
    \/ RunSleep
    \/ RunAfterLoop
    \/ RunInfo

----------------------------------------------------------------------------
(* main.rs: cleanup_vm *)

SignalOutcomes == {"Ok", "ESRCH"}
WaitOutcomes == {"Ok", "ECHILD"}
UmountImageOutcomes == IF imageMounted THEN {"Ok", "EPERM"} ELSE {"EINVAL"}
\* remove_dir_all walks into a directory that is a mount point, removes what
\* it finds there, and fails when it comes to remove the mount point itself.
RemoveDirAllOutcomes == IF imageMounted THEN {"EBUSY", "EACCES"} ELSE {"Ok", "EACCES"}

\* The `?` on a step of cleanup_vm: only Ok goes on to the next step.
StepContinues_ErrorIgnored(r) == TRUE
StepContinues(r) == r = "Ok"

\* state.process.signal(SIGKILL)?
CleanupSignal ==
    /\ pc = "cleanup_vm"
    /\ \E r \in SignalOutcomes :
        /\ Log(Ev("cleanup_vm", "signal", r))
        /\ process' = IF r = "Ok" THEN "killed" ELSE process
        /\ IF StepContinues(r)
           THEN pc' = "cleanup_wait" /\ UNCHANGED <<stack, ret>>
           ELSE Return(Err("Io", "could not kill jailer process", r))
    /\ UNCHANGED <<arg, call, prev, pending, imageDir, imageMounts, stateDir, vmState,
                   attempts, exists, runError, reported, exitCode>>
    /\ UNCHANGED nsVars
    /\ UNCHANGED sideVars

\* state.process.wait()?
CleanupWait ==
    /\ pc = "cleanup_wait"
    /\ \E r \in WaitOutcomes :
        /\ Log(Ev("cleanup_vm", "wait", r))
        /\ process' = IF r = "Ok" THEN "reaped" ELSE process
        /\ IF StepContinues(r)
           THEN pc' = "cleanup_delete" /\ UNCHANGED <<stack, ret>>
           ELSE Return(Err("Io", "waiting for jailer process failed", r))
    /\ UNCHANGED <<arg, call, prev, pending, imageDir, imageMounts, stateDir, vmState,
                   attempts, exists, runError, reported, exitCode>>
    /\ UNCHANGED nsVars
    /\ UNCHANGED sideVars

\* network::namespace::delete(NETWORK_NAMESPACE)
CleanupDelete ==
    /\ pc = "cleanup_delete"
    /\ arg' = NETWORK_NAMESPACE
    /\ Log(Ev("cleanup_vm", "delete", NETWORK_NAMESPACE))
    /\ Call("delete", "cleanup_deleted")
    /\ UNCHANGED <<ret, call, prev, pending>>
    /\ UNCHANGED nsVars
    /\ UNCHANGED vmVars
    /\ UNCHANGED sideVars

\* The `?` on delete's result.
CleanupDeleted ==
    /\ pc = "cleanup_deleted"
    /\ IF IsOk(ret)
       THEN pc' = "cleanup_umount" /\ UNCHANGED <<stack, ret>>
       ELSE Return(ret)
    /\ UNCHANGED <<arg, call, prev, pending, trace>>
    /\ UNCHANGED nsVars
    /\ UNCHANGED vmVars
    /\ UNCHANGED sideVars

\* umount2(<chroot>/image, MNT_DETACH)?
CleanupUmount ==
    /\ pc = "cleanup_umount"
    /\ \E r \in UmountImageOutcomes :
        /\ Log(Ev("cleanup_vm", "umount_image", r))
        /\ imageMounts' = IF r = "Ok" THEN imageMounts - 1 ELSE imageMounts
        /\ IF StepContinues(r)
           THEN pc' = "cleanup_remove" /\ UNCHANGED <<stack, ret>>
           ELSE Return(Err("System", "could not unmount image directory", r))
    /\ UNCHANGED <<arg, call, prev, pending, imageDir, stateDir, process, vmState, attempts,
                   exists, runError, reported, exitCode>>
    /\ UNCHANGED nsVars
    /\ UNCHANGED sideVars

\* fs::remove_dir_all(state_root)?, then Ok(())
CleanupRemove ==
    /\ pc = "cleanup_remove"
    /\ \E r \in RemoveDirAllOutcomes :
        /\ Log(Ev("cleanup_vm", "remove_dir_all", r))
        /\ stateDir' = IF r = "Ok" THEN FALSE ELSE stateDir
        /\ imageDir' = IF r = "Ok" THEN FALSE ELSE imageDir
        /\ Return(IF r = "Ok" THEN Ok ELSE Err("Io", "could not remove VM  state", r))
    /\ UNCHANGED <<arg, call, prev, pending, imageMounts, process, vmState, attempts,
                   exists, runError, reported, exitCode>>
    /\ UNCHANGED nsVars
    /\ UNCHANGED sideVars

CleanupActions ==
    \/ CleanupSignal
    \/ CleanupWait
    \/ CleanupDelete
    \/ CleanupDeleted
    \/ CleanupUmount
    \/ CleanupRemove

----------------------------------------------------------------------------
(* main.rs: main and die *)

\* die: log the error (with its cause) and std::process::exit(1).
Die(error) ==
    /\ reported' = Append(reported, [msg |-> "Error", error |-> error])
    /\ exitCode' = 1
    /\ pc' = "exited"
    /\ stack' = <<>>

\* spawn_blocking(setup_vm)
MainSetup ==
    /\ pc = "main"
    /\ Log(Ev("main", "setup_vm", "call"))
    /\ Call("setup_vm", "main_setup_ret")
    /\ UNCHANGED <<ret, arg, call, prev, pending>>
    /\ UNCHANGED nsVars
    /\ UNCHANGED vmVars
    /\ UNCHANGED sideVars

\* match .. { Ok(state) => state, Err(error) => die(&error) }
MainSetupRet ==
    /\ pc = "main_setup_ret"
    /\ Log(Ev("main", "setup_vm", ret.kind))
    /\ IF IsOk(ret)
       THEN /\ pc' = "main_run"
            /\ UNCHANGED <<stack, reported, exitCode>>
       ELSE Die(ret)
    /\ UNCHANGED <<ret, arg, call, prev, pending, imageDir, imageMounts, stateDir, process,
                   vmState, attempts, exists, runError>>
    /\ UNCHANGED nsVars
    /\ UNCHANGED sideVars

\* run(&state).await
MainRun ==
    /\ pc = "main_run"
    /\ Log(Ev("main", "run", "call"))
    /\ Call("run", "main_run_ret")
    /\ UNCHANGED <<ret, arg, call, prev, pending>>
    /\ UNCHANGED nsVars
    /\ UNCHANGED vmVars
    /\ UNCHANGED sideVars

\* if let Err(error) = run(..) { error!("run() failed: {}", error); .. }
MainRunRet ==
    /\ pc = "main_run_ret"
    /\ Log(Ev("main", "run", ret.kind))
    /\ runError' = ret
    /\ reported' = IF IsOk(ret) THEN reported
                   ELSE Append(reported, [msg |-> "run() failed", error |-> ret])
    /\ pc' = "main_cleanup"
    /\ UNCHANGED <<stack, ret, arg, call, prev, pending, imageDir, imageMounts, stateDir,
                   process, vmState, attempts, exists, exitCode>>
    /\ UNCHANGED nsVars
    /\ UNCHANGED sideVars

\* spawn_blocking(|| cleanup_vm(state)): the VmState is moved into the call.
MainCleanup ==
    /\ pc = "main_cleanup"
    /\ Log(Ev("main", "cleanup_vm", vmState))
    /\ vmState' = "moved"
    /\ Call("cleanup_vm", "main_cleanup_ret")
    /\ UNCHANGED <<ret, arg, call, prev, pending, imageDir, imageMounts, stateDir, process,
                   attempts, exists, runError, reported, exitCode>>
    /\ UNCHANGED nsVars
    /\ UNCHANGED sideVars

\* die(&error) inside `if let Err(error) = run(..)`: error is run's, the
\* cleanup's is bound to cleanup_err.
DieArgument_CleanupError == IF IsOk(ret) THEN runError ELSE ret
DieArgument == runError

\* After the cleanup on run's error path: die(&error) with run's error.
RunFailedExit_FallThrough(log) ==
    /\ reported' = log
    /\ pc' = "main_cleanup"
    /\ UNCHANGED <<stack, exitCode>>
RunFailedExit(log) ==
    /\ reported' = Append(log, [msg |-> "Error", error |-> DieArgument])
    /\ exitCode' = 1
    /\ pc' = "exited"
    /\ stack' = <<>>

\* Lines 33-41: what main does with cleanup_vm's result.
MainCleanupRet ==
    /\ pc = "main_cleanup_ret"
    /\ Log(Ev("main", "cleanup_vm_returned", ret.kind))
    /\ IF ~IsOk(runError)
       THEN RunFailedExit(IF IsOk(ret) THEN reported
                          ELSE Append(reported, [msg |-> "Cleanup failed", error |-> ret]))
       ELSE IF ~IsOk(ret)
            THEN Die(ret)
            ELSE /\ exitCode' = 0
                 /\ pc' = "exited"
                 /\ UNCHANGED <<stack, reported>>
    /\ UNCHANGED <<ret, arg, call, prev, pending, imageDir, imageMounts, stateDir, process,
                   vmState, attempts, exists, runError>>
    /\ UNCHANGED nsVars
    /\ UNCHANGED sideVars

MainActions ==
    \/ MainSetup
    \/ MainSetupRet
    \/ MainRun
    \/ MainRunRet
    \/ MainCleanup
    \/ MainCleanupRet

Init ==
    /\ pc = "main"
    /\ stack = <<>>
    /\ ret = Ok
    /\ arg = NETWORK_NAMESPACE
    /\ call = NoCall
    /\ prev = NoCall
    /\ pending = Ok
    /\ trace = <<>>
    /\ HostInit
    /\ \E left \in {"none", "dirs", "mounted"} :
        /\ left # "none" => dirShared
        /\ VmStart(left)
    /\ SideInit

Next ==
    \/ MainActions
    \/ SetupActions
    \/ RunActions
    \/ CleanupActions
    \/ PrepareActions
    \/ CreateActions
    \/ DeleteActions

Spec == Init /\ [][Next]_vars

----------------------------------------------------------------------------
(* Two processes in create at the same time: each runs                      *)
(* prepare_runtime_directory on the shared /var/run/netns, then goes on to  *)
(* create its namespace file (create_open) or returns the error (failed).  *)

LGoto(p, label) == lpc' = [lpc EXCEPT ![p] = label]
LReturn(p, result) ==
    /\ lpc' = [lpc EXCEPT ![p] = IF IsOk(result) THEN "create_open" ELSE "failed"]
    /\ lret' = [lret EXCEPT ![p] = result]

\* flock(LOCK_EX) is granted only while no other open file holds the lock.
LockAvailable_NotExclusive(p) == TRUE
LockAvailable(p) == holders = {}

\* FileLock::drop and the close of lock_file: the process holds the lock no more.
Released_Leaked(p, hs) == hs
Released(p, hs) == hs \ {p}

\* Control points between taking the lock and releasing it.
CriticalSection == {"prep_setprop", "prep_bind", "prep_retry", "prep_unlock"}

LMkdir(p) ==
    /\ lpc[p] = "prep_mkdir"
    /\ \E r \in MkdirOutcomes :
        /\ dirExists' = (dirExists \/ r = "Ok")
        /\ IF r \in {"Ok", "EEXIST"}
           THEN LGoto(p, "prep_open") /\ UNCHANGED lret
           ELSE LReturn(p, Err("Io", "could not create /var/run/netns", r))
    /\ UNCHANGED <<lpending, holders, binders, dirMounts, dirShared, lockHeld>>

LOpen(p) ==
    /\ lpc[p] = "prep_open"
    /\ \E r \in OpenDirOutcomes :
        IF r = "Ok"
        THEN LGoto(p, "prep_lock") /\ UNCHANGED lret
        ELSE LReturn(p, Err("Io", "could not open /var/run/netns", r))
    /\ UNCHANGED <<lpending, holders, binders, dirExists, dirMounts, dirShared, lockHeld>>

\* FileLock::new: blocks until the lock is free, or fails.
LFlock(p) ==
    /\ lpc[p] = "prep_lock"
    /\ \E r \in FlockOutcomes :
        /\ r = "Ok" => LockAvailable(p)
        /\ holders' = IF r = "Ok" THEN holders \cup {p} ELSE holders
        /\ IF r = "Ok"
           THEN LGoto(p, "prep_setprop") /\ UNCHANGED lret
           ELSE LReturn(p, Err("System", "could not lock /var/run/netns", r))
    /\ lockHeld' = (holders' # {})
    /\ UNCHANGED <<lpending, binders, dirExists, dirMounts, dirShared>>

LSetPropagation(p) ==
    /\ lpc[p] = "prep_setprop"
    /\ \E r \in SetPropagationOutcomes :
        /\ dirShared' = (dirShared \/ r = "Ok")
        /\ LGoto(p, IF BindNeeded(r) THEN "prep_bind" ELSE "prep_unlock")
        /\ lpending' = [lpending EXCEPT ![p] =
                          IF r = "Ok" \/ BindNeeded(r) THEN Ok
                          ELSE Err("System", "could not set mount propagation on /var/run/netns", r)]
    /\ UNCHANGED <<lret, holders, binders, dirExists, dirMounts, lockHeld>>

LBind(p) ==
    /\ lpc[p] = "prep_bind"
    /\ \E r \in BindDirOutcomes :
        /\ dirMounts' = IF r = "Ok" THEN dirMounts + 1 ELSE dirMounts
        /\ binders' = IF r = "Ok" THEN binders \cup {p} ELSE binders
        /\ LGoto(p, IF r = "Ok" THEN "prep_retry" ELSE "prep_unlock")
        /\ lpending' = [lpending EXCEPT ![p] =
                          IF r = "Ok" THEN Ok
                          ELSE Err("System", "could not bind /var/run/netns to /var/run/netns", r)]
    /\ UNCHANGED <<lret, holders, dirExists, dirShared, lockHeld>>

LRetry(p) ==
    /\ lpc[p] = "prep_retry"
    /\ \E r \in SetPropagationOutcomes :
        /\ dirShared' = (dirShared \/ r = "Ok")
        /\ LGoto(p, "prep_unlock")
        /\ lpending' = [lpending EXCEPT ![p] =
                          IF r = "Ok" THEN Ok
                          ELSE Err("System", "could not set mount propagation on /var/run/netns", r)]
    /\ UNCHANGED <<lret, holders, binders, dirExists, dirMounts, lockHeld>>

\* Scope exit of prepare_runtime_directory: unlock (a failure is printed), close.
LUnlock(p) ==
    /\ lpc[p] = "prep_unlock"
    /\ \E r \in UnlockOutcomes :
        /\ holders' = Released(p, holders)
        /\ LReturn(p, UnlockResult(lpending[p], r))
    /\ lockHeld' = (holders' # {})
    /\ UNCHANGED <<lpending, binders, dirExists, dirMounts, dirShared>>

LStep(p) ==
    \/ LMkdir(p)
    \/ LOpen(p)
    \/ LFlock(p)
    \/ LSetPropagation(p)
    \/ LBind(p)
    \/ LRetry(p)
    \/ LUnlock(p)

InitLock ==
    /\ pc = "concurrent"
    /\ stack = <<>>
    /\ ret = Ok
    /\ arg = NETWORK_NAMESPACE
    /\ call = NoCall
    /\ prev = NoCall
    /\ pending = Ok
    /\ trace = <<>>
    /\ HostInit
    /\ VmInit
    /\ lpc = [p \in Procs |-> "prep_mkdir"]
    /\ lret = [p \in Procs |-> Ok]
    /\ lpending = [p \in Procs |-> Ok]
    /\ holders = {}
    /\ binders = {}
    /\ client = [socket_path |-> "none"]
    /\ apiPc = "idle"
    /\ apiCall = [op |-> "none"]
    /\ apiSent = <<>>
    /\ apiResp = [kind |-> "none"]
    /\ apiResult = [variant |-> "none"]
    /\ config = [id |-> <<>>]
    /\ jail = [pc |-> "idle"]
    /\ cni = [pc |-> "idle"]

\* A step of process p: nothing but the runtime directory and the lock changes.
LProc(p) ==
    /\ LStep(p)
    /\ UNCHANGED <<orchVars, nsFile, nsMount, curNs, saved, entryNs, vmVars, apiVars,
                   jailVars, cniVars>>

NextLock == \E p \in Procs : LProc(p)

\* Each process is scheduled by the operating system: a step it can take is
\* taken eventually.
SpecLock == InitLock /\ [][NextLock]_vars /\ \A p \in Procs : WF_vars(LProc(p))

----------------------------------------------------------------------------
(* The Firecracker API client (firecracker/api.rs).                         *)
(* A text is a sequence of chunks: <<"/drives/", "rootfs">> is the text     *)
(* /drives/rootfs. The chunks "?" and "#" are those characters.             *)

\* JSON values: a tag and the text of the value
JStr(text) == [t |-> "string", v |-> text]
JNum(text) == [t |-> "number", v |-> text]
JBool(text) == [t |-> "bool", v |-> text]

STATUS_OK == 200
NO_CONTENT == 204

\* Socket paths a Client can be constructed with
SocketPaths == {"/run/firecracker.socket", "/srv/jail/api.socket"}

\* Arguments of the operations
DriveIds == {<<"rootfs">>, <<"scratch">>, <<"a", "?", "b">>}
Drives ==
    { [drive_id |-> id, is_read_only |-> FALSE, is_root_device |-> root,
       partuuid |-> pu, path_on_host |-> <<"/images/disk.ext4">>,
       rate_limiter |-> <<>>] :
        id \in DriveIds, root \in BOOLEAN, pu \in {<<>>, <<"0eaa91a0-01">>} }
BootSources ==
    { [boot_args |-> ba, initrd_path |-> ip, kernel_image_path |-> <<"/images/vmlinux">>] :
        ba \in {<<>>, <<"console=ttyS0">>}, ip \in {<<>>, <<"/images/initrd.img">>} }
ActionTypes == {"FlushMetrics", "InstanceStart", "SendCtrlAltDel"}

\* serde Serialize of the model types: an Option that is None (<<>> here) is
\* skipped (skip_serializing_if = "Option::is_none").
BoolText(b) == IF b THEN <<"true">> ELSE <<"false">>
SerializeDrive(d) ==
    LET always == [drive_id |-> JStr(d.drive_id),
                   is_read_only |-> JBool(BoolText(d.is_read_only)),
                   is_root_device |-> JBool(BoolText(d.is_root_device)),
                   path_on_host |-> JStr(d.path_on_host)]
    IN IF d.partuuid = <<>> THEN always
       ELSE [drive_id |-> always.drive_id, is_read_only |-> always.is_read_only,
             is_root_device |-> always.is_root_device,
             path_on_host |-> always.path_on_host, partuuid |-> JStr(d.partuuid)]
\* #[serde(skip_serializing_if = "Option::is_none")] on a field of BootSource:
\* the fields the member contributes to the JSON object
JNull == [t |-> "null", v |-> <<>>]
NoFields == [field \in {} |-> JNull]
SkipIfNone_Null(field, option) == field :> (IF option = <<>> THEN JNull ELSE JStr(option))
SkipIfNone(field, option) == IF option = <<>> THEN NoFields ELSE field :> JStr(option)
SerializeBootSource(s) ==
    [kernel_image_path |-> JStr(s.kernel_image_path)]
        @@ SkipIfNone("boot_args", s.boot_args)
        @@ SkipIfNone("initrd_path", s.initrd_path)
SerializeAction(a) == [action_type |-> JStr(<<a>>)]

\* serialize_json: the JSON text of the value as the request body
serialize_json(json) == [kind |-> "json", json |-> json]
\* Body::default()
EmptyBody == [kind |-> "empty"]

\* Parsing the text after the authority as a URI: the path ends at the first
\* "?" (start of the query) or "#" (start of the fragment).
RECURSIVE UriPath(_)
UriPath(text) ==
    IF text = <<>> \/ Head(text) \in {"?", "#"} THEN <<>>
    ELSE <<Head(text)>> \o UriPath(Tail(text))

\* format!("/drives/{}", drive.drive_id)
DrivePath(d) == <<"/drives/">> \o d.drive_id

\* Client::builder_for with .method(..).body(..): the request
JsonHeaders == {<<"accept", "application/json">>, <<"content-type", "application/json">>}
builder_for(path, method, body) ==
    [method |-> method,
     socket |-> client.socket_path,
     path |-> UriPath(path),
     headers |-> JsonHeaders,
     body |-> body]

\* Response bodies
InfoObject(state) ==
    [app_name |-> JStr(<<"Firecracker">>), id |-> JStr(<<"vm0">>),
     state |-> JStr(<<state>>), vmm_version |-> JStr(<<"0.21.1">>)]
JsonObjects ==
    { [fault_message |-> JStr(<<"drive busy">>)],
      [fault_message |-> JStr(<<>>)],
      [fault_message |-> JNum(<<"7">>)],
      [fault_message |-> JStr(<<"not booted">>), extra |-> JNum(<<"1">>)],
      [fault_message |-> JStr(<<"timed out waiting for socket to exist">>)],
      [message |-> JStr(<<"drive busy">>)],
      InfoObject("Not started"),
      InfoObject("Running"),
      InfoObject("Paused"),
      InfoObject("Halted"),
      [app_name |-> JStr(<<"Firecracker">>), id |-> JStr(<<"vm0">>),
       state |-> JStr(<<"Running">>)],
      [app_name |-> JStr(<<"Firecracker">>), id |-> JStr(<<"vm0">>),
       state |-> JStr(<<"Running">>), vmm_version |-> JStr(<<"0.21.1">>),
       fault_message |-> JStr(<<"both">>)] }
Bodies ==
    {[kind |-> "unreadable"], [kind |-> "empty"], [kind |-> "garbage"]}
        \cup { [kind |-> "object", json |-> o] : o \in JsonObjects }

Statuses == {100, 101, 200, 201, 204, 302, 400, 404, 499, 500, 503, 599, 600}
Responses ==
    {[kind |-> "connect_error"]}
        \cup { [kind |-> "response", status |-> s, body |-> b] : s \in Statuses, b \in Bodies }

\* api::Error and the Ok values
ROk(value) == [variant |-> "Ok", value |-> value]
Unit == [unit |-> TRUE]
Transport == [variant |-> "Transport"]
InvalidJson == [variant |-> "InvalidJson"]
UnexpectedResponse(status) == [variant |-> "UnexpectedResponse", status |-> status]
ClientError(fault_message) == [variant |-> "Client", fault_message |-> fault_message]
ServerError(fault_message) == [variant |-> "Server", fault_message |-> fault_message]

\* The error run returns when the socket has not appeared after the last check
SocketTimeoutError == ServerError(<<"timed out waiting for socket to exist">>)

\* The types of the model module that derive Deserialize: only these can be
\* decoded from JSON
DerivesDeserialize ==
    {"Error", "InstanceInfo", "InstanceState", "Drive", "RateLimiter", "TokenBucket"}

\* serde Deserialize of model::Error and model::InstanceInfo
HasString(o, field) == field \in DOMAIN o /\ o[field].t = "string"
InstanceStates == {<<"Not started">>, <<"Running">>, <<"Paused">>}
Decodes(shape, body) ==
    /\ body.kind = "object"
    /\ IF shape = "Error" THEN HasString(body.json, "fault_message")
       ELSE /\ HasString(body.json, "app_name")
            /\ HasString(body.json, "id")
            /\ HasString(body.json, "vmm_version")
            /\ HasString(body.json, "state")
            /\ body.json.state.v \in InstanceStates
Decoded(shape, body) ==
    IF shape = "Error" THEN [fault_message |-> body.json.fault_message.v]
    ELSE [app_name |-> body.json.app_name.v, id |-> body.json.id.v,
          state |-> body.json.state.v, vmm_version |-> body.json.vmm_version.v]

\* deserialize_json: aggregate the body (? on hyper::Error), then from_reader (?)
deserialize_json(shape, response) ==
    IF response.body.kind = "unreadable" THEN Transport
    ELSE IF Decodes(shape, response.body) THEN ROk(Decoded(shape, response.body))
    ELSE InvalidJson

\* StatusCode::is_client_error, StatusCode::is_server_error
is_client_error_NoUpperBound(status) == status >= 400
is_client_error(status) == status >= 400 /\ status < 500
is_server_error(status) == status >= 500 /\ status < 600

\* Which of the two, the decode failure or the status, decides the error
DecodeFailureReturned_StatusFirst(status) == ~(is_client_error(status) \/ is_server_error(status))
DecodeFailureReturned(status) == TRUE

deserialize_error(response) ==
    LET status == response.status
        error == deserialize_json("Error", response)
    IN IF error.variant # "Ok" /\ DecodeFailureReturned(status) THEN error
       ELSE LET fault_message == IF error.variant = "Ok" THEN error.value.fault_message ELSE <<>>
            IN IF is_client_error(status) THEN ClientError(fault_message)
               ELSE IF is_server_error(status) THEN ServerError(fault_message)
               ELSE UnexpectedResponse(status)

\* response.status() == StatusCode::OK, response.status() == StatusCode::NO_CONTENT
IsStatus_AnySuccess(status, expected) == status >= 200 /\ status < 300
IsStatus(status, expected) == status = expected

\* self.inner.request(request): what goes on the wire for one call
Requests_Twice(request) == <<request, request>>
Requests(request) == <<request>>

\* An operation up to its .await on the response
Send(op, argument, request) ==
    /\ apiPc \in {"idle", "returned"}
    /\ apiCall' = [op |-> op, arg |-> argument]
    /\ apiSent' = Requests(request)
    /\ apiResp' = [kind |-> "none"]
    /\ apiResult' = [variant |-> "none"]
    /\ apiPc' = "awaiting"
    /\ UNCHANGED <<client, orchVars, nsVars, vmVars, lockVars, jailVars, cniVars>>

InstanceInfoSend ==
    Send("instance_info", Unit, builder_for(<<"/">>, "GET", EmptyBody))

SetBootSourceSend ==
    \E source \in BootSources :
        Send("set_boot_source", source,
             builder_for(<<"/boot-source">>, "PUT", serialize_json(SerializeBootSource(source))))

SetDriveSend ==
    \E drive \in Drives :
        Send("set_drive", drive,
             builder_for(DrivePath(drive), "PUT", serialize_json(SerializeDrive(drive))))

ActionSend ==
    \E action \in ActionTypes :
        Send("action", [action_type |-> action],
             builder_for(<<"/actions">>, "PUT", serialize_json(SerializeAction(action))))

\* The rest of an operation, from the answer to its request
Receive(response, result) ==
    /\ apiResp' = response
    /\ apiResult' = result
    /\ apiPc' = "returned"
    /\ UNCHANGED <<client, apiCall, apiSent, orchVars, nsVars, vmVars, lockVars,
                   jailVars, cniVars>>

InstanceInfoReceive ==
    /\ apiPc = "awaiting"
    /\ apiCall.op = "instance_info"
    /\ \E response \in Responses :
        Receive(response,
                IF response.kind = "connect_error" THEN Transport
                ELSE IF IsStatus(response.status, STATUS_OK)
                     THEN deserialize_json("InstanceInfo", response)
                     ELSE deserialize_error(response))

PutReceive ==
    /\ apiPc = "awaiting"
    /\ apiCall.op \in {"set_boot_source", "set_drive", "action"}
    /\ \E response \in Responses :
        Receive(response,
                IF response.kind = "connect_error" THEN Transport
                ELSE IF IsStatus(response.status, NO_CONTENT)
                     THEN ROk(Unit)
                     ELSE deserialize_error(response))

\* Client::new(socket_path); nothing else of the program runs, the host is idle.
InitApi ==
    /\ pc = "client"
    /\ stack = <<>>
    /\ ret = Ok
    /\ arg = NETWORK_NAMESPACE
    /\ call = NoCall
    /\ prev = NoCall
    /\ pending = Ok
    /\ trace = <<>>
    /\ dirExists = TRUE
    /\ dirMounts = 0
    /\ dirShared = FALSE
    /\ lockHeld = FALSE
    /\ nsFile = [n \in Names |-> FALSE]
    /\ nsMount = [n \in Names |-> NoNs]
    /\ curNs = HostNs
    /\ saved = NoNs
    /\ entryNs = HostNs
    /\ VmInit
    /\ lpc = [p \in Procs |-> "idle"]
    /\ lret = [p \in Procs |-> Ok]
    /\ lpending = [p \in Procs |-> Ok]
    /\ holders = {}
    /\ binders = {}
    /\ client \in [socket_path : SocketPaths]
    /\ apiPc = "idle"
    /\ apiCall = [op |-> "none"]
    /\ apiSent = <<>>
    /\ apiResp = [kind |-> "none"]
    /\ apiResult = [variant |-> "none"]
    /\ config = [id |-> <<>>]
    /\ jail = [pc |-> "idle"]
    /\ cni = [pc |-> "idle"]

NextApi ==
    \/ InstanceInfoSend
    \/ SetBootSourceSend
    \/ SetDriveSend
    \/ ActionSend
    \/ InstanceInfoReceive
    \/ PutReceive

SpecApi == InitApi /\ [][NextApi]_vars

----------------------------------------------------------------------------
(* The jailer configuration (firecracker/jailer.rs) and the paths main.rs   *)
(* derives from it. A path is the sequence of its components, "/" first     *)
(* when it is absolute: <<"/", "srv", "jailer">> is /srv/jailer.            *)

\* Option<T>
None == <<>>
Some(x) == <<x>>
Unwrap(o) == o[1]

\* PathBuf::push / Path::join (an absolute p replaces the path), Path::file_name,
\* Path::parent
Push(path, p) ==
    LET IsAbsolute == p # <<>> /\ Head(p) = "/"
    IN IF IsAbsolute THEN p ELSE path \o p
FileName(path) ==
    IF path = <<>> \/ path[Len(path)] \in {"/", ".."} THEN None
    ELSE Some(path[Len(path)])
Parent(path) ==
    IF path = <<>> \/ path = <<"/">> THEN None
    ELSE Some(SubSeq(path, 1, Len(path) - 1))

\* u32::to_string (Uid and Gid display as their number)
RECURSIVE Decimal(_)
Decimal(n) ==
    LET Digits == <<"0", "1", "2", "3", "4", "5", "6", "7", "8", "9">>
    IN IF n < 10 THEN <<Digits[n + 1]>>
       ELSE Decimal(n \div 10) \o <<Digits[(n % 10) + 1]>>

\* Configurations a caller can build
DEFAULT_JAILER == <<"/", "usr", "bin", "jailer">>
DEFAULT_FIRECRACKER == <<"/", "usr", "bin", "firecracker">>
DEFAULT_CHROOT_BASE == <<"/", "srv", "jailer">>
Configs ==
    [ jailer_binary : {DEFAULT_JAILER, <<"/", "opt", "fc", "jailer">>},
      firecracker_binary : {DEFAULT_FIRECRACKER, <<"/", "opt", "fc", "firecracker">>,
                            <<"/", "opt", "fc", "fc-debug">>, <<"/", "opt", "fc", "..">>},
      id : {<<"testvm">>, <<"vm2">>, <<"/", "tmp">>},
      user : {0, 1000},
      group : {0, 100},
      chroot_base : {DEFAULT_CHROOT_BASE, <<"/", "var", "jails">>},
      network_namespace : {None, Some(<<"/", "var", "run", "netns", "test">>)},
      cgroup : { [file \in {} |-> "0"],
                 "cpuset.cpus" :> "0",
                 ("cpuset.cpus" :> "0") @@ ("cpuset.mems" :> "0") },
      firecracker_args : {<<>>, << <<"--seccomp-level">>, <<"2">> >>} ]

\* Config::chroot_path; None stands for the panic of expect(..)
chroot_path(c) ==
    LET name == FileName(c.firecracker_binary)
    IN IF name = None THEN None
       ELSE Some(Push(Push(Push(c.chroot_base, <<Unwrap(name)>>), c.id), <<"root">>))

\* The orders in which a HashMap can hand out its entries
IterationOrders(map) ==
    { order \in [1..Cardinality(DOMAIN map) -> DOMAIN map] :
        \A i, j \in DOMAIN order : i # j => order[i] # order[j] }

RECURSIVE CgroupArgs(_, _)
CgroupArgs(cgroup, order) ==
    IF order = <<>> THEN <<>>
    ELSE << <<"--cgroup">>, <<Head(order), "=", cgroup[Head(order)]>> >>
            \o CgroupArgs(cgroup, Tail(order))

\* !config.firecracker_args.is_empty()
HasExtraArgs_Always(args) == TRUE
HasExtraArgs(args) == args # <<>>

\* build_command, with the order in which config.cgroup.iter() yields
build_command(c, order) ==
    [program |-> c.jailer_binary,
     args |-> << <<"--id">>, c.id,
                 <<"--exec-file">>, c.firecracker_binary,
                 <<"--uid">>, Decimal(c.user),
                 <<"--gid">>, Decimal(c.group),
                 <<"--chroot-base-dir">>, c.chroot_base >>
              \o CgroupArgs(c.cgroup, order)
              \o (IF c.network_namespace = None THEN <<>>
                  ELSE << <<"--netns">>, Unwrap(c.network_namespace) >>)
              \o (IF HasExtraArgs(c.firecracker_args)
                  THEN << <<"--">> >> \o c.firecracker_args
                  ELSE <<>>),
     unshare |-> {"Pid"}]

NoCommand == [program |-> <<>>, args |-> <<>>, unshare |-> {}]

JailFrame == UNCHANGED <<config, orchVars, nsVars, vmVars, lockVars, apiVars, cniVars>>

\* setup_vm: let image_path = jailer_config.chroot_path().join("image")
JailImagePath ==
    /\ jail.pc = "config"
    /\ LET chroot == chroot_path(config)
       IN jail' = IF chroot = None
                  THEN [jail EXCEPT !.pc = "panicked"]
                  ELSE [jail EXCEPT !.pc = "image",
                                    !.image_path = Push(Unwrap(chroot), <<"image">>)]
    /\ JailFrame

\* setup_vm: jailer::spawn(&jailer_config), which runs build_command(config)
JailSpawn ==
    /\ jail.pc = "image"
    /\ \E order \in IterationOrders(config.cgroup) :
        jail' = [jail EXCEPT !.pc = "spawned", !.command = build_command(config, order)]
    /\ JailFrame

\* setup_vm: Ok(VmState { process, chroot_path: jailer_config.chroot_path() })
JailVmState ==
    /\ jail.pc = "spawned"
    /\ jail' = [jail EXCEPT !.pc = "state", !.chroot_path = Unwrap(chroot_path(config))]
    /\ JailFrame

\* cleanup_vm: state.chroot_path.join("image"), state.chroot_path.parent().unwrap()
JailCleanupPaths ==
    /\ jail.pc = "state"
    /\ jail' = [jail EXCEPT !.pc = "cleaned",
                            !.images_dir = Push(jail.chroot_path, <<"image">>),
                            !.state_root = Unwrap(Parent(jail.chroot_path))]
    /\ JailFrame

InitJailer ==
    /\ pc = "jailer"
    /\ stack = <<>>
    /\ ret = Ok
    /\ arg = NETWORK_NAMESPACE
    /\ call = NoCall
    /\ prev = NoCall
    /\ pending = Ok
    /\ trace = <<>>
    /\ dirExists = TRUE
    /\ dirMounts = 0
    /\ dirShared = FALSE
    /\ lockHeld = FALSE
    /\ nsFile = [n \in Names |-> FALSE]
    /\ nsMount = [n \in Names |-> NoNs]
    /\ curNs = HostNs
    /\ saved = NoNs
    /\ entryNs = HostNs
    /\ VmInit
    /\ lpc = [p \in Procs |-> "idle"]
    /\ lret = [p \in Procs |-> Ok]
    /\ lpending = [p \in Procs |-> Ok]
    /\ holders = {}
    /\ binders = {}
    /\ client = [socket_path |-> "none"]
    /\ apiPc = "idle"
    /\ apiCall = [op |-> "none"]
    /\ apiSent = <<>>
    /\ apiResp = [kind |-> "none"]
    /\ apiResult = [variant |-> "none"]
    /\ config \in Configs
    /\ jail = [pc |-> "config", image_path |-> <<>>, command |-> NoCommand,
               chroot_path |-> <<>>, images_dir |-> <<>>, state_root |-> <<>>]
    /\ cni = [pc |-> "idle"]

NextJailer ==
    \/ JailImagePath
    \/ JailSpawn
    \/ JailVmState
    \/ JailCleanupPaths

SpecJailer == InitJailer /\ [][NextJailer]_vars

----------------------------------------------------------------------------
(* The CNI JSON schema (network/cni/schema.rs).                             *)
(* A JSON object is a function from member names to JSON values, as         *)
(* serde_json's Map is: a member inserted again replaces the earlier one.   *)

JArr(elements) == [t |-> "array", v |-> elements]
JObj(members) == [t |-> "object", v |-> members]

\* The members of object o other than those named
Without(o, names) == [k \in DOMAIN o \ names |-> o[k]]
IsStrings(j) == j.t = "array" /\ \A i \in 1..Len(j.v) : j.v[i].t = "string"

\* The outcome of serde_json::from_value
DOk(value) == [ok |-> TRUE, value |-> value]
DErr == [ok |-> FALSE]

\* std::net::IpAddr: parsing a text gives an address, written here as the
\* text Display prints for it; a text that is no address does not parse.
ParseIp(text) ==
    IF text = <<"10.1.0.1">> THEN Some(<<"10.1.0.1">>)
    ELSE IF text \in {<<"fe80::1">>, <<"FE80::1">>} THEN Some(<<"fe80::1">>)
    ELSE None
DisplayIp(addr) == addr

\* A member of a derived Serialize: left out when skip_serializing_if says so
Member_Always(skip, field, json) == field :> json
Member(skip, field, json) == IF skip THEN NoFields ELSE field :> json

\* fn is_false(v: &bool) -> bool
is_false(v) == ~v

\* Serialize of DnsConfiguration
EncodeDns(dns) ==
    LET EncodeTexts(texts) == JArr([i \in 1..Len(texts) |-> JStr(texts[i])])
    IN JObj(Member(dns.nameservers = <<>>, "nameservers",
                   JArr([i \in 1..Len(dns.nameservers) |->
                            JStr(DisplayIp(dns.nameservers[i]))]))
            @@ Member(dns.domain = None, "domain",
                      IF dns.domain = None THEN JNull ELSE JStr(Unwrap(dns.domain)))
            @@ Member(dns.search = <<>>, "search", EncodeTexts(dns.search))
            @@ Member(dns.options = <<>>, "options", EncodeTexts(dns.options)))

\* Serialize of IpamConfiguration: type, then the flattened other
EncodeIpam(ipam) == JObj(ipam.other @@ ("type" :> JStr(ipam.plugin_type)))

\* Serialize of PluginConfiguration: its members in the order of the fields,
\* the flattened other last
PluginMembers(plugin) ==
    plugin.other
        @@ Member(plugin.dns = None, "dns",
                  IF plugin.dns = None THEN JNull ELSE EncodeDns(Unwrap(plugin.dns)))
        @@ Member(plugin.ipam = None, "ipam",
                  IF plugin.ipam = None THEN JNull ELSE EncodeIpam(Unwrap(plugin.ipam)))
        @@ Member(is_false(plugin.ip_masq), "ipMasq", JBool(BoolText(plugin.ip_masq)))
        @@ Member(DOMAIN plugin.args = {}, "args", JObj(plugin.args))
        @@ ("type" :> JStr(plugin.plugin_type))

\* serde_json::to_value(&value) of a Versioned<T>: cniVersion, then the
\* flattened payload, which for a NetworkConfiguration is name and the flattened
\* plugin, and for a NetworkConfigurationList name, disableCheck and plugins
to_value(kind, versioned) ==
    LET payload == versioned.payload
        NetworkConfigurationMembers ==
            PluginMembers(payload.plugin) @@ ("name" :> JStr(payload.name))
        NetworkConfigurationListMembers ==
            ("name" :> JStr(payload.name))
                @@ Member(is_false(payload.disable_check), "disableCheck",
                          JBool(BoolText(payload.disable_check)))
                @@ ("plugins" :> JArr([i \in 1..Len(payload.plugins) |->
                                            JObj(PluginMembers(payload.plugins[i]))]))
    IN JObj((IF kind = "NetworkConfiguration" THEN NetworkConfigurationMembers
             ELSE NetworkConfigurationListMembers)
            @@ ("cniVersion" :> JStr(versioned.cni_version)))

\* Deserialize of DnsConfiguration: every member has a default
DecodeDns(j) ==
    LET o == j.v
        Has(field) == field \in DOMAIN o
        Texts(field) == IF Has(field) THEN [i \in 1..Len(o[field].v) |-> o[field].v[i].v]
                        ELSE <<>>
        decodes ==
            /\ Has("nameservers") =>
                    /\ IsStrings(o.nameservers)
                    /\ \A i \in 1..Len(o.nameservers.v) : ParseIp(o.nameservers.v[i].v) # None
            /\ Has("domain") => o.domain.t = "string"
            /\ Has("search") => IsStrings(o.search)
            /\ Has("options") => IsStrings(o.options)
    IN IF j.t # "object" THEN DErr
       ELSE IF ~decodes THEN DErr
       ELSE DOk([nameservers |-> [i \in 1..Len(Texts("nameservers")) |->
                                      Unwrap(ParseIp(Texts("nameservers")[i]))],
                 domain |-> IF Has("domain") THEN Some(o.domain.v) ELSE None,
                 search |-> Texts("search"),
                 options |-> Texts("options")])

\* Deserialize of IpamConfiguration: type, every other member into other
DecodeIpam(j) ==
    IF j.t = "object" /\ HasString(j.v, "type")
    THEN DOk([plugin_type |-> j.v.type.v, other |-> Without(j.v, {"type"})])
    ELSE DErr

\* Deserialize of PluginConfiguration from the members o: type is required,
\* args, ipMasq, ipam and dns have defaults, every other member goes into other
DecodePlugin(o) ==
    LET Has(field) == field \in DOMAIN o
        decodes ==
            /\ HasString(o, "type")
            /\ Has("args") => o.args.t = "object"
            /\ Has("ipMasq") => o.ipMasq.t = "bool"
            /\ Has("ipam") => DecodeIpam(o.ipam).ok
            /\ Has("dns") => DecodeDns(o.dns).ok
    IN IF ~decodes THEN DErr
       ELSE DOk([plugin_type |-> o.type.v,
                 args |-> IF Has("args") THEN o.args.v ELSE NoFields,
                 ip_masq |-> IF Has("ipMasq") THEN o.ipMasq.v = <<"true">> ELSE FALSE,
                 ipam |-> IF Has("ipam") THEN Some(DecodeIpam(o.ipam).value) ELSE None,
                 dns |-> IF Has("dns") THEN Some(DecodeDns(o.dns).value) ELSE None,
                 other |-> Without(o, {"type", "args", "ipMasq", "ipam", "dns"})])

\* Deserialize of NetworkConfiguration: name, the rest is the flattened plugin
DecodeNetworkConfiguration(o) ==
    LET plugin == DecodePlugin(Without(o, {"name"}))
    IN IF HasString(o, "name") /\ plugin.ok
       THEN DOk([name |-> o.name.v, plugin |-> plugin.value])
       ELSE DErr

\* Deserialize of NetworkConfigurationList: members it does not know are ignored
DecodeNetworkConfigurationList(o) ==
    LET decodes ==
            /\ HasString(o, "name")
            /\ "disableCheck" \in DOMAIN o => o.disableCheck.t = "bool"
            /\ "plugins" \in DOMAIN o
            /\ o.plugins.t = "array"
            /\ \A i \in 1..Len(o.plugins.v) :
                    o.plugins.v[i].t = "object" /\ DecodePlugin(o.plugins.v[i].v).ok
    IN IF ~decodes THEN DErr
       ELSE DOk([name |-> o.name.v,
                 disable_check |-> IF "disableCheck" \in DOMAIN o
                                   THEN o.disableCheck.v = <<"true">> ELSE FALSE,
                 plugins |-> [i \in 1..Len(o.plugins.v) |->
                                  DecodePlugin(o.plugins.v[i].v).value]])

\* serde_json::from_value::<Versioned<T>>(json): cniVersion, the rest is the
\* flattened payload
from_value(kind, json) ==
    IF json.t # "object" THEN DErr
    ELSE IF ~HasString(json.v, "cniVersion") THEN DErr
    ELSE LET rest == Without(json.v, {"cniVersion"})
             payload == IF kind = "NetworkConfiguration"
                        THEN DecodeNetworkConfiguration(rest)
                        ELSE DecodeNetworkConfigurationList(rest)
         IN IF payload.ok
            THEN DOk([cni_version |-> json.v.cniVersion.v, payload |-> payload.value])
            ELSE DErr

\* JSON documents handed to from_value. A plugin object: each member absent,
\* present with its default, present with another value, or of the wrong type
PluginObjects ==
    LET TypeMembers == {NoFields, "type" :> JStr(<<"bridge">>)}
        IpMasqMembers ==
            {NoFields, "ipMasq" :> JBool(<<"false">>), "ipMasq" :> JBool(<<"true">>),
             "ipMasq" :> JStr(<<"yes">>)}
        ArgsMembers ==
            {NoFields, "args" :> JObj(NoFields),
             "args" :> JObj("labels" :> JObj("appVersion" :> JStr(<<"1.0">>)))}
        IpamMembers ==
            {NoFields,
             "ipam" :> JObj([type |-> JStr(<<"host-local">>),
                             subnet |-> JStr(<<"10.1.0.0/16">>),
                             gateway |-> JStr(<<"10.1.0.1">>)]),
             "ipam" :> JObj([subnet |-> JStr(<<"10.1.0.0/16">>)])}
        DnsMembers ==
            {NoFields,
             "dns" :> JObj(NoFields),
             "dns" :> JObj([nameservers |-> JArr(<< JStr(<<"10.1.0.1">>) >>)]),
             "dns" :> JObj([nameservers |-> JArr(<< JStr(<<"FE80::1">>),
                                                    JStr(<<"10.1.0.1">>) >>),
                            domain |-> JStr(<<"example.org">>),
                            search |-> JArr(<< JStr(<<"a.example.org">>) >>),
                            options |-> JArr(<< JStr(<<"ndots:2">>) >>)]),
             "dns" :> JObj([nameservers |-> JArr(<< JStr(<<"dns.local">>) >>)])}
        SpecificMembers ==
            {NoFields,
             "bridge" :> JStr(<<"cni0">>),
             "sysctl" :> JObj("net.core.somaxconn" :> JStr(<<"500">>)),
             [bridge |-> JStr(<<"cni0">>), name |-> JStr(<<"inner">>)]}
    IN { type @@ masq @@ args @@ ipam @@ dns @@ specific :
            type \in TypeMembers, masq \in IpMasqMembers, args \in ArgsMembers,
            ipam \in IpamMembers, dns \in DnsMembers, specific \in SpecificMembers }

\* Documents of both kinds; the plugin objects of the lists are those of the
\* examples of the CNI specification and some variations
CniDocuments ==
    LET ListedPlugins ==
            { [type |-> JStr(<<"bridge">>), bridge |-> JStr(<<"cni0">>),
               args |-> JObj("labels" :> JObj("appVersion" :> JStr(<<"1.0">>))),
               ipam |-> JObj([type |-> JStr(<<"host-local">>),
                              subnet |-> JStr(<<"10.1.0.0/16">>),
                              gateway |-> JStr(<<"10.1.0.1">>)]),
               dns |-> JObj([nameservers |-> JArr(<< JStr(<<"10.1.0.1">>) >>)])],
              [type |-> JStr(<<"tuning">>),
               sysctl |-> JObj("net.core.somaxconn" :> JStr(<<"500">>))],
              [type |-> JStr(<<"bridge">>), ipMasq |-> JBool(<<"true">>),
               name |-> JStr(<<"inner">>)],
              [type |-> JStr(<<"bridge">>), ipMasq |-> JBool(<<"false">>),
               args |-> JObj(NoFields), dns |-> JObj(NoFields)],
              [bridge |-> JStr(<<"cni0">>)] }
        PluginLists ==
            {<<>>} \cup { <<JObj(a)>> : a \in ListedPlugins }
                   \cup { <<JObj(a), JObj(b)>> : a \in ListedPlugins, b \in ListedPlugins }
        DisableCheckMembers ==
            {NoFields, "disableCheck" :> JBool(<<"false">>),
             "disableCheck" :> JBool(<<"true">>)}
        VersionMembers == {"cniVersion" :> JStr(<<"1.0.0">>), NoFields}
        NameMembers == {"name" :> JStr(<<"dbnet">>), NoFields}
    IN { JObj(version @@ name @@ plugin) :
            version \in VersionMembers, name \in NameMembers, plugin \in PluginObjects }
       \cup { JObj(version @@ name @@ check @@ ("plugins" :> JArr(plugins)) @@ specific) :
                version \in VersionMembers, name \in NameMembers,
                check \in DisableCheckMembers, plugins \in PluginLists,
                specific \in {NoFields, "bridge" :> JStr(<<"cni0">>)} }
       \cup { JArr(<<>>) }

CniFrame == UNCHANGED <<orchVars, nsVars, vmVars, lockVars, apiVars, jailVars>>

\* serde_json::from_value of a document: how a value of the schema comes to be
CniDecode ==
    /\ cni.pc = "document"
    /\ LET result == from_value(cni.kind, cni.document)
       IN cni' = IF result.ok
                 THEN [cni EXCEPT !.pc = "value", !.value = result.value]
                 ELSE [cni EXCEPT !.pc = "rejected"]
    /\ CniFrame

\* assert_roundtrip: serde_json::to_value(&value)
CniEncode ==
    /\ cni.pc = "value"
    /\ cni' = [cni EXCEPT !.pc = "encoded", !.json = to_value(cni.kind, cni.value)]
    /\ CniFrame

\* assert_roundtrip: serde_json::from_value of the JSON of the value
CniRedecode ==
    /\ cni.pc = "encoded"
    /\ cni' = [cni EXCEPT !.pc = "decoded", !.decoded = from_value(cni.kind, cni.json)]
    /\ CniFrame

\* ErrorCode: the unit variants, Reserved(u32) and Plugin(u32)
Code(name) == [code |-> name]
Reserved(value) == [code |-> "Reserved", value |-> value]
Plugin(value) == [code |-> "Plugin", value |-> value]

\* ErrorCodeVisitor::visit_u32: the match on the number
visit_u32(value) ==
    IF value = 1 THEN Code("IncompatibleCniVersion")
    ELSE IF value = 2 THEN Code("UnsupportedConfigurationField")
    ELSE IF value = 3 THEN Code("ContainerUnknown")
    ELSE IF value = 4 THEN Code("InvalidEnvironmentVariable")
    ELSE IF value = 5 THEN Code("Io")
    ELSE IF value = 6 THEN Code("Decode")
    ELSE IF value = 7 THEN Code("InvalidNetworkConfiguration")
    ELSE IF value = 11 THEN Code("Transient")
    ELSE IF value \in {8, 9} \cup 12..99 THEN Reserved(value)
    ELSE Plugin(1)

\* Numbers a plugin can report as its error code: a u32, here up to 2^31 - 1
ErrorCodeNumbers == 0..13 \cup {50, 98, 99, 100, 101, 255, 65536, 2147483647}

\* <ErrorCode as Deserialize>::deserialize: deserialize_u32 hands the number
\* to the visitor
CniErrorCode ==
    /\ cni.pc = "number"
    /\ cni' = [cni EXCEPT !.pc = "code", !.decoded = DOk(visit_u32(cni.document))]
    /\ CniFrame

InitCni ==
    /\ pc = "cni"
    /\ stack = <<>>
    /\ ret = Ok
    /\ arg = NETWORK_NAMESPACE
    /\ call = NoCall
    /\ prev = NoCall
    /\ pending = Ok
    /\ trace = <<>>
    /\ dirExists = TRUE
    /\ dirMounts = 0
    /\ dirShared = FALSE
    /\ lockHeld = FALSE
    /\ nsFile = [n \in Names |-> FALSE]
    /\ nsMount = [n \in Names |-> NoNs]
    /\ curNs = HostNs
    /\ saved = NoNs
    /\ entryNs = HostNs
    /\ VmInit
    /\ lpc = [p \in Procs |-> "idle"]
    /\ lret = [p \in Procs |-> Ok]
    /\ lpending = [p \in Procs |-> Ok]
    /\ holders = {}
    /\ binders = {}
    /\ client = [socket_path |-> "none"]
    /\ apiPc = "idle"
    /\ apiCall = [op |-> "none"]
    /\ apiSent = <<>>
    /\ apiResp = [kind |-> "none"]
    /\ apiResult = [variant |-> "none"]
    /\ config = [id |-> <<>>]
    /\ jail = [pc |-> "idle"]
    /\ \/ \E kind \in {"NetworkConfiguration", "NetworkConfigurationList"},
             document \in CniDocuments :
            cni = [pc |-> "document", kind |-> kind, document |-> document,
                   value |-> <<>>, json |-> JNull, decoded |-> DErr]
       \/ \E number \in ErrorCodeNumbers :
            cni = [pc |-> "number", kind |-> "ErrorCode", document |-> number,
                   value |-> <<>>, json |-> JNull, decoded |-> DErr]

NextCni ==
    \/ CniDecode
    \/ CniEncode
    \/ CniRedecode
    \/ CniErrorCode

SpecCni == InitCni /\ [][NextCni]_vars

----------------------------------------------------------------------------
(* Vocabulary of the properties *)

\* Lifecycle phase of the orchestrator at a control point of main.
Phase(p) ==
    IF p = "main" THEN "Uninitialized"
    ELSE IF p \in {"setup_vm", "setup_created", "setup_mkdir", "setup_bind", "setup_spawn",
                   "main_setup_ret", "create", "create_prepared", "create_open",
                   "create_guard", "create_unshare", "create_bind", "create_remove",
                   "create_drop", "prep_mkdir", "prep_open", "prep_lock", "prep_setprop",
                   "prep_bind", "prep_retry", "prep_unlock"} THEN "Provisioning"
    ELSE IF p \in {"main_run", "run", "run_check", "run_sleep", "run_after_loop",
                   "run_info", "main_run_ret"} THEN "Running"
    ELSE IF p \in {"main_cleanup", "cleanup_vm", "cleanup_wait", "cleanup_delete",
                   "cleanup_deleted", "cleanup_umount", "cleanup_remove", "delete",
                   "delete_remove", "main_cleanup_ret"} THEN "TearingDown"
    ELSE "Terminated"

Pos(fn, op) == {i \in DOMAIN trace : trace[i].fn = fn /\ trace[i].op = op}
Happened(fn, op, res) == \E i \in DOMAIN trace : trace[i] = Ev(fn, op, res)
Attempted(fn, op) == Pos(fn, op) # {}

SetupReturned == \E i \in Pos("main", "setup_vm") : trace[i].res # "call"
SetupSucceeded == Happened("main", "setup_vm", "Ok")
RunReturned == \E i \in Pos("main", "run") : trace[i].res # "call"
CleanupReturned == Attempted("main", "cleanup_vm_returned")
ApiCalls ==
    SelectSeq(trace, LAMBDA e : e.fn = "run" /\ e.op \in {"set_boot_source", "set_drive",
                                                          "action", "instance_info"})
ApiCallNames == [i \in DOMAIN ApiCalls |-> ApiCalls[i].op]

----------------------------------------------------------------------------
(* Properties *)

\* C1: when setup_vm fails after create has made the namespace, the process
\* does not exit before tear-down has removed the namespace file and
\* unmounted the image directory.
C1_FailedSetupIsTornDown ==
    (pc = "exited" /\ Happened("setup_vm", "create_returned", "Ok") /\ ~SetupSucceeded)
        => (~nsFile[NETWORK_NAMESPACE] /\ ~imageMounted)

\* C2: once cleanup_vm has returned, all four of its steps have been attempted
\* (kill/wait, namespace deletion, image unmount, state directory removal),
\* whatever failed before.
C2_CleanupAttemptsEveryStep ==
    CleanupReturned =>
        /\ Attempted("cleanup_vm", "signal")
        /\ Attempted("cleanup_vm", "delete")
        /\ Attempted("cleanup_vm", "umount_image")
        /\ Attempted("cleanup_vm", "remove_dir_all")

\* C3: cleanup_vm is invoked at most once, only with the VmState main still
\* owns, only after setup_vm succeeded and run has returned; run never uses the
\* VmState after that; and a process that exits after a successful setup has
\* invoked it exactly once.
C3_CleanupExactlyOnce ==
    LET calls == Pos("main", "cleanup_vm") IN
    /\ Cardinality(calls) <= 1
    /\ \A i \in calls :
        /\ trace[i].res = "owned"
        /\ \E j \in Pos("main", "setup_vm") : j < i /\ trace[j].res = "Ok"
        /\ \E j \in Pos("main", "run") : j < i /\ trace[j].res # "call"
        /\ \A j \in DOMAIN trace : j > i => trace[j].fn # "run"
    /\ (SetupSucceeded /\ pc = "exited") => Cardinality(calls) = 1
    /\ vmState = "moved" <=> calls # {}

C3_Witness ==
    /\ pc = "exited"
    /\ SetupSucceeded
    /\ ~IsOk(runError)
    /\ Cardinality(Pos("main", "cleanup_vm")) = 1

\* C4: in tear-down, the namespace is deleted, the image directory unmounted
\* and the state directory removed only after SIGKILL was sent and wait has
\* returned the exit status: the jail process is reaped at each of these steps.
C4_ProcessReapedBeforeTeardown ==
    /\ \A i \in DOMAIN trace :
        (\/ trace[i].fn = "delete"
         \/ trace[i].fn = "cleanup_vm" /\ trace[i].op \in {"delete", "umount_image",
                                                           "remove_dir_all"})
        => \E j, k \in DOMAIN trace :
            /\ j < k /\ k < i
            /\ trace[j] = Ev("cleanup_vm", "signal", "Ok")
            /\ trace[k] = Ev("cleanup_vm", "wait", "Ok")
    /\ pc \in {"cleanup_delete", "delete", "delete_remove", "cleanup_deleted",
               "cleanup_umount", "cleanup_remove"} => process = "reaped"

C4_Witness ==
    /\ Happened("cleanup_vm", "remove_dir_all", "Ok")
    /\ Happened("delete", "remove_file", "Ok")
    /\ process = "reaped"

\* C5: run makes at most SocketAttempts existence checks, sleeps after each
\* check that misses the socket, checks no more after the first check that
\* finds it, and, when no check finds it, returns the server-fault error
\* "timed out waiting for socket to exist" without any API request.
C5_SocketWaitBounded ==
    LET checks == Pos("run", "socket_exists")
        sleeps == Pos("run", "sleep")
        found == {i \in checks : trace[i].res = "found"}
    IN
    /\ attempts = Cardinality(checks)
    /\ Cardinality(checks) <= SocketAttempts
    /\ \A i \in checks :
        (trace[i].res = "missing" /\ i < Len(trace)) => i + 1 \in sleeps
    /\ \A i \in sleeps : i - 1 \in checks /\ trace[i - 1].res = "missing"
    /\ \A i \in found : \A j \in checks \cup sleeps : j <= i
    /\ (RunReturned /\ found = {}) =>
        /\ Cardinality(checks) = SocketAttempts
        /\ Cardinality(sleeps) = SocketAttempts
        /\ runError = ApiErr("Server", "timed out waiting for socket to exist")
        /\ ApiCalls = <<>>
    /\ ApiCalls # <<>> => found # {}

C5_Witness ==
    /\ RunReturned
    /\ ~Happened("run", "socket_exists", "found")
    /\ Cardinality(Pos("run", "sleep")) = SocketAttempts

\* C6: a run that returns Ok has issued set_boot_source, set_drive,
\* action(InstanceStart) and instance_info, in this order.
C6_CallsInFixedOrder ==
    Happened("main", "run", "Ok") =>
        ApiCallNames = <<"set_boot_source", "set_drive", "action", "instance_info">>

\* C7: the lifecycle phase changes only along Uninitialized -> Provisioning ->
\* Running -> TearingDown -> Terminated, or from Provisioning into TearingDown.
C7_AllowedTransitions ==
    {<<"Uninitialized", "Provisioning">>, <<"Provisioning", "Running">>,
     <<"Running", "TearingDown">>, <<"TearingDown", "Terminated">>,
     <<"Provisioning", "TearingDown">>}

C7_OnlyLifecycleTransitions ==
    [][Phase(pc') # Phase(pc) => <<Phase(pc), Phase(pc')>> \in C7_AllowedTransitions]_vars

\* C8: when create(name) has returned Ok and the delete(name) called next has
\* returned, no file and no mount are left at the persistent path, and creating
\* the file anew can succeed.
C8_CreateDeleteLeavesNothing ==
    (/\ pc = "driver"
     /\ call.op = "delete" /\ call.res = "Ok"
     /\ prev.op = "create" /\ prev.res = "Ok" /\ prev.name = call.name)
    => /\ ~nsFile[call.name]
       /\ nsMount[call.name] = NoNs
       /\ "Ok" \in CreateNewOutcomes(call.name)

C8_Witness ==
    /\ pc = "driver"
    /\ call.op = "delete" /\ call.res = "Ok"
    /\ prev.op = "create" /\ prev.res = "Ok" /\ prev.name = call.name
    /\ trace = <<Ev("delete", "umount", "Ok"), Ev("delete", "remove_file", "Ok")>>

\* C9: a create(name) called while the file exists never saves or switches the
\* namespace (no unshare), leaves the file and what is bound on it as they
\* were, and returns an error: the already-exists I/O error of the file
\* creation step, whenever that step is reached.
C9_DuplicateCreateFails ==
    (call.op = "create" /\ call.file) =>
        /\ ~Attempted("create", "save_ns")
        /\ ~Attempted("create", "unshare")
        /\ ~Attempted("create", "bind_ns")
        /\ ~Attempted("create", "remove_file")
        /\ nsFile[call.name]
        /\ nsMount[call.name] = call.bound
        /\ curNs = entryNs
        /\ \A i \in Pos("create", "create_new") : trace[i].res = "EEXIST"
        /\ pc \in {"driver_ret", "driver"} =>
            /\ ~IsOk(ret)
            /\ Attempted("create", "create_new") =>
                ret = Err("Io", "could not create network namespace file", "EEXIST")

C9_Witness ==
    /\ pc = "driver"
    /\ call.op = "create" /\ call.file /\ call.bound # NoNs
    /\ prev.op = "create" /\ prev.res = "Ok" /\ prev.name = call.name
    /\ ret = Err("Io", "could not create network namespace file", "EEXIST")

\* C10: whenever create returns, with Ok or with an error, the thread is in the
\* network namespace it was in when create was called, and no guard is left.
C10_NamespaceRestored ==
    (pc = "driver_ret" /\ call.op = "create") =>
        /\ curNs = entryNs
        /\ saved = NoNs

C10_Witness ==
    /\ pc = "driver_ret" /\ call.op = "create"
    /\ Happened("create", "unshare", "Ok")
    /\ Happened("create", "bind_ns", "EPERM")
    /\ ~IsOk(ret)
    /\ curNs = entryNs

\* C11: when the setns of the guard's drop fails, nothing more happens in the
\* process: it aborts at that step, create does not return to setup_vm, and
\* no jail is spawned, no API call made and no cleanup run.
C11_RestoreFailureAborts ==
    /\ \A i \in Pos("create", "setns") :
        trace[i].res # "Ok" => (i = Len(trace) /\ pc = "aborted")
    /\ pc = "aborted" =>
        /\ \E i \in Pos("create", "setns") : trace[i].res # "Ok"
        /\ ~Attempted("setup_vm", "create_returned")
        /\ ~Attempted("setup_vm", "spawn")
        /\ ~Attempted("main", "run")
        /\ ~Attempted("main", "cleanup_vm")
        /\ process = "none" /\ vmState = "none"

C11_Witness ==
    /\ pc = "aborted"
    /\ Happened("create", "unshare", "Ok")
    /\ Happened("create", "setns", "EPERM")
    /\ curNs # entryNs

\* C12: a create whose bind mount failed has tried to remove the file it
\* created, right after the failed mount, and returns the bind-mount error
\* whether or not the removal worked; the file is gone when the removal worked.
C12_BindFailureCleanedUp ==
    /\ \A i \in Pos("create", "bind_ns") :
        (trace[i].res # "Ok" /\ i < Len(trace)) =>
            /\ trace[i + 1].fn = "create" /\ trace[i + 1].op = "remove_file"
            /\ pending = Err("System", "could not bind /proc/self/ns/net", trace[i].res)
    /\ \A i \in Pos("create", "remove_file") :
        /\ trace[i - 1].op = "bind_ns" /\ trace[i - 1].res # "Ok"
        /\ pc \in {"create_drop", "driver_ret", "driver"} =>
            nsFile[call.name] = (trace[i].res # "Ok")
    /\ (pc = "driver_ret" /\ call.op = "create" /\ Attempted("create", "remove_file")) =>
        ret = Err("System", "could not bind /proc/self/ns/net", "EPERM")

C12_Witness ==
    /\ pc = "driver_ret" /\ call.op = "create"
    /\ Happened("create", "bind_ns", "EPERM")
    /\ Happened("create", "remove_file", "EACCES")
    /\ ret = Err("System", "could not bind /proc/self/ns/net", "EPERM")
    /\ nsFile[call.name]

\* C13: delete first tries the unmount, then always tries the file removal,
\* and returns an error exactly when the removal failed; an unmount that finds
\* nothing mounted (EINVAL) does not make it fail.
C13_DeleteFailsIffRemovalFails ==
    (pc = "driver_ret" /\ call.op = "delete") =>
        /\ Len(trace) = 2
        /\ trace[1].fn = "delete" /\ trace[1].op = "umount"
        /\ trace[2].fn = "delete" /\ trace[2].op = "remove_file"
        /\ IsOk(ret) <=> trace[2].res = "Ok"
        /\ ~IsOk(ret) => ret = Err("Io", "could not remove namespace file", trace[2].res)

C13_Witness ==
    /\ pc = "driver_ret" /\ call.op = "delete"
    /\ trace = <<Ev("delete", "umount", "EINVAL"), Ev("delete", "remove_file", "Ok")>>
    /\ IsOk(ret)

\* C14: two processes preparing the runtime directory are never both between
\* taking and releasing the lock, and the directory is bind-mounted onto itself
\* by at most one of them: never two mounts stacked on it.
C14_PreparationSerialized ==
    /\ Cardinality({p \in Procs : lpc[p] \in CriticalSection}) <= 1
    /\ holders = {p \in Procs : lpc[p] \in CriticalSection}
    /\ Cardinality(binders) <= 1
    /\ dirMounts <= 1

C14_Witness ==
    /\ binders = {"p1"}
    /\ lpc = [p \in Procs |-> "create_open"]
    /\ dirMounts = 1

\* C15: a process that has left prepare_runtime_directory, with Ok (and goes
\* on to create its namespace file) or with any error, does not hold the
\* lock; and a lock that is held is released, so that a waiting process can
\* take it.
C15_LockReleasedOnEveryPath ==
    /\ [](\A p \in Procs : lpc[p] \in {"create_open", "failed"} => p \notin holders)
    /\ \A p \in Procs : (p \in holders) ~> (holders = {})
    /\ \A p \in Procs : (lpc[p] = "prep_lock") ~> (lpc[p] # "prep_lock")

C15_Witness ==
    /\ lpc["p1"] = "failed"
    /\ lret["p1"] = Err("System", "could not bind /var/run/netns to /var/run/netns", "EPERM")
    /\ holders = {"p2"}

\* Vocabulary of the API properties
Returned == apiPc = "returned"
Answered == Returned /\ apiResp.kind = "response"
SuccessStatus == IF apiCall.op = "instance_info" THEN 200 ELSE 204
BodyRead == apiResp.body.kind # "unreadable"

\* C16: an answer whose status is not the operation's success status and whose
\* body is an object with a string fault_message gives Client with that message
\* for 400..499, Server with that message for 500..599, and UnexpectedResponse
\* with the observed status for any other status.
C16_ErrorClassifiedByStatus ==
    (Answered /\ apiResp.status # SuccessStatus /\ Decodes("Error", apiResp.body)) =>
        LET status == apiResp.status
            fault_message == apiResp.body.json.fault_message.v
        IN /\ status \in 400..499 => apiResult = ClientError(fault_message)
           /\ status \in 500..599 => apiResult = ServerError(fault_message)
           /\ status \notin 400..599 => apiResult = UnexpectedResponse(status)

C16_Witness ==
    /\ Returned
    /\ apiCall.op = "set_drive"
    /\ apiResp = [kind |-> "response", status |-> 400,
                  body |-> [kind |-> "object", json |-> [fault_message |-> JStr(<<"drive busy">>)]]]
    /\ apiResult = ClientError(<<"drive busy">>)

\* C17: when the body that was read does not decode - as InstanceInfo for a 200
\* answer to instance_info, as the error object for an answer without the
\* success status - the operation returns InvalidJson whatever the status is.
C17_DecodeFailureShortCircuits ==
    (/\ Answered
     /\ BodyRead
     /\ \/ /\ apiCall.op = "instance_info"
           /\ apiResp.status = 200
           /\ ~Decodes("InstanceInfo", apiResp.body)
        \/ /\ apiResp.status # SuccessStatus
           /\ ~Decodes("Error", apiResp.body))
        => apiResult = InvalidJson

C17_Witness ==
    /\ Returned
    /\ apiCall.op = "set_boot_source"
    /\ apiResp = [kind |-> "response", status |-> 500, body |-> [kind |-> "garbage"]]
    /\ apiResult = InvalidJson

\* C18: instance_info returns Ok only for status 200, with the decoded
\* InstanceInfo; the PUT operations return Ok for status 204 whatever the body
\* is, and only then; any other status gives an error.
C18_OkOnlyForExactStatus ==
    Returned =>
        /\ apiResult.variant = "Ok" =>
            /\ apiResp.kind = "response"
            /\ apiResp.status = SuccessStatus
            /\ IF apiCall.op = "instance_info"
               THEN /\ Decodes("InstanceInfo", apiResp.body)
                    /\ apiResult.value = Decoded("InstanceInfo", apiResp.body)
               ELSE apiResult.value = Unit
        /\ (Answered /\ apiCall.op # "instance_info" /\ apiResp.status = 204)
              => apiResult = ROk(Unit)
        /\ (Answered /\ apiResp.status # SuccessStatus) => apiResult.variant # "Ok"

C18_Witness ==
    /\ Returned
    /\ apiCall.op = "action"
    /\ apiResp = [kind |-> "response", status |-> 204, body |-> [kind |-> "garbage"]]
    /\ apiResult = ROk(Unit)

\* C19: every request carries Accept and Content-Type application/json and goes
\* to the client's socket path, and the PUT of set_drive has the path
\* /drives/<drive_id> with the drive_id of its body.
C19_DrivePathMatchesBody ==
    \A i \in 1..Len(apiSent) :
        LET request == apiSent[i]
        IN /\ <<"accept", "application/json">> \in request.headers
           /\ <<"content-type", "application/json">> \in request.headers
           /\ request.socket = client.socket_path
           /\ apiCall.op = "set_drive" =>
                /\ request.method = "PUT"
                /\ request.path = <<"/drives/">> \o request.body.json.drive_id.v

\* C20: a call puts one request on the wire and no other until the next call;
\* a failure to connect, or to read the body the operation asks for, is
\* returned as Transport.
C20_OneRequestPerCall ==
    /\ [](apiPc \in {"awaiting", "returned"} => Len(apiSent) = 1)
    /\ [](Returned /\ apiResp.kind = "connect_error" => apiResult = Transport)
    /\ []((Answered /\ ~BodyRead /\ apiResp.status # 204) => apiResult = Transport)
    /\ [][apiSent' # apiSent => apiPc \in {"idle", "returned"} /\ apiPc' = "awaiting"]_vars
    /\ [][apiPc = "awaiting" => apiPc' = "returned" /\ apiSent' = apiSent]_vars

C20_Witness ==
    /\ Returned
    /\ apiCall = [op |-> "action", arg |-> [action_type |-> "InstanceStart"]]
    /\ apiResp.kind = "connect_error"
    /\ apiResult = Transport
    /\ Len(apiSent) = 1

\* C23: when the launch of the jailer fails, setup_vm returns the Jailer
\* error (not Io, System or Api), no VmState exists, and main dies with that
\* error.
C23_SpawnFailureIsJailerError ==
    \A i \in Pos("setup_vm", "spawn") :
        trace[i].res # "Ok" =>
            /\ vmState = "none"
            /\ ~SetupSucceeded
            /\ pc = "main_setup_ret" =>
                /\ ret = Err("Jailer", "jailer error", trace[i].res)
                /\ ret.kind \notin {"Io", "System", "Api", "Ok"}
            /\ pc = "exited" =>
                /\ exitCode = 1
                /\ reported[Len(reported)].error.kind = "Jailer"
            /\ ~Attempted("main", "run")

C23_Witness ==
    /\ pc = "main_setup_ret"
    /\ Happened("setup_vm", "spawn", "ENOENT")
    /\ ret.kind = "Jailer"
    /\ vmState = "none"

\* C26: in a create, the runtime directory is bind-mounted onto itself exactly
\* when the first set_propagation answered EINVAL, and then set_propagation is
\* tried once more and no further; an existing directory (EEXIST) is accepted;
\* no second mount is ever stacked on the directory; and after any other
\* first-attempt error, a failed bind mount or a failed retry, create returns
\* that error without having tried to create the namespace file.
C26_BindOnlyAfterEinval ==
    LET sp == Pos("prepare", "set_propagation")
        bd == Pos("prepare", "bind_dir")
        first == CHOOSE i \in sp : \A j \in sp : i <= j
        Failed == \/ \E i \in sp : trace[i].res \notin {"Ok", "EINVAL"}
                  \/ \E i \in bd : trace[i].res # "Ok"
    IN /\ dirMounts <= 1
       /\ Cardinality(bd) <= 1
       /\ Cardinality(sp) <= 2
       /\ \A i \in bd :
            /\ i - 1 = first
            /\ trace[i - 1].res = "EINVAL"
            /\ trace[i].res = "Ok" => dirMounts = 1
            /\ (trace[i].res = "Ok" /\ i < Len(trace)) =>
                    trace[i + 1].op = "set_propagation"
            /\ (trace[i].res # "Ok" /\ i < Len(trace)) => trace[i + 1].op = "unlock"
       /\ \A i \in sp :
            /\ (i = first /\ trace[i].res = "EINVAL" /\ i < Len(trace)) =>
                    trace[i + 1].op = "bind_dir"
            /\ ((i # first \/ trace[i].res # "EINVAL") /\ i < Len(trace)) =>
                    trace[i + 1].op = "unlock"
            /\ i # first => trace[i - 1] = Ev("prepare", "bind_dir", "Ok")
       /\ \A i \in Pos("prepare", "mkdir") :
            (trace[i].res = "EEXIST" /\ i < Len(trace)) => trace[i + 1].op = "open_dir"
       /\ Failed =>
            /\ ~Attempted("create", "create_new")
            /\ nsFile[call.name] = call.file
            /\ pc \in {"create_prepared", "driver_ret"} => ~IsOk(ret)

C26_Witness ==
    /\ pc = "driver_ret" /\ call.op = "create" /\ IsOk(ret)
    /\ Happened("prepare", "mkdir", "EEXIST")
    /\ Happened("prepare", "set_propagation", "EINVAL")
    /\ Happened("prepare", "bind_dir", "Ok")
    /\ Cardinality(Pos("prepare", "set_propagation")) = 2
    /\ dirMounts = 1

\* C27: when run has failed (after a successful setup), the process exits
\* only after cleanup_vm was called and has returned, with status 1 and run's
\* own error as the error it dies with; a failure of the cleanup is reported
\* too, before that, and does not take its place.
C27_RunErrorSurvivesCleanup ==
    (pc = "exited" /\ ~IsOk(runError)) =>
        /\ SetupSucceeded
        /\ \E i \in Pos("main", "cleanup_vm") :
            \E j \in Pos("main", "cleanup_vm_returned") :
                /\ i < j
                /\ \A k \in Pos("main", "run") : k < i
        /\ exitCode = 1
        /\ reported[1] = [msg |-> "run() failed", error |-> runError]
        /\ reported[Len(reported)] = [msg |-> "Error", error |-> runError]
        /\ IF IsOk(ret)
           THEN Len(reported) = 2
           ELSE /\ Len(reported) = 3
                /\ reported[2] = [msg |-> "Cleanup failed", error |-> ret]

C27_Witness ==
    /\ pc = "exited"
    /\ runError = ApiErr("Server", "timed out waiting for socket to exist")
    /\ ret = Err("Io", "could not remove namespace file", "EACCES")
    /\ Len(reported) = 3
    /\ exitCode = 1

\* C28: no answer of the server with a 5xx status makes a client operation
\* return an error equal to the one run returns when the socket never appeared.
C28_TimeoutDistinctFromServerError ==
    (Answered /\ apiResp.status \in 500..599) => apiResult # SocketTimeoutError

\* C29: what prepare_runtime_directory returns is decided by the steps before
\* the unlock alone: a failed unlock leaves it as it was, and create goes on
\* and can succeed; a failed restore of the network namespace, on the other
\* hand, ends the process: create returns nothing.
C29_GuardsFailAsymmetrically ==
    LET sp == {i \in Pos("prepare", "set_propagation") : trace[i].res \notin {"Ok", "EINVAL"}}
        bd == {i \in Pos("prepare", "bind_dir") : trace[i].res # "Ok"}
        Expected ==
            IF sp # {}
            THEN Err("System", "could not set mount propagation on /var/run/netns",
                     trace[CHOOSE i \in sp : TRUE].res)
            ELSE IF bd # {}
            THEN Err("System", "could not bind /var/run/netns to /var/run/netns",
                     trace[CHOOSE i \in bd : TRUE].res)
            ELSE Ok
    IN /\ (pc = "create_prepared" /\ Attempted("prepare", "unlock")) => ret = Expected
       /\ (Attempted("prepare", "unlock") /\ Expected = Ok /\ pc \notin
              {"prep_unlock", "create_prepared", "create_open"}) =>
                    Attempted("create", "create_new")
       /\ (\E i \in Pos("create", "setns") : trace[i].res # "Ok") =>
            /\ pc = "aborted"
            /\ stack = <<>>
            /\ call.res = "pending"
       /\ pc = "aborted" => Happened("create", "setns", "EPERM")

C29_Witness ==
    /\ pc = "driver_ret" /\ call.op = "create" /\ IsOk(ret)
    /\ Happened("prepare", "unlock", "EBADF")
    /\ nsMount[call.name] # NoNs

\* C30: a create that returns an error after it has created the namespace
\* file has tried to remove that file, and leaves the file absent when the
\* removal worked.
C30_FailedCreateRemovesFile ==
    (/\ pc = "driver_ret"
     /\ call.op = "create"
     /\ ~IsOk(ret)
     /\ Happened("create", "create_new", "Ok")) =>
        /\ Attempted("create", "remove_file")
        /\ Happened("create", "remove_file", "Ok") => ~nsFile[call.name]

\* C21: the command built from a config runs the jailer binary with --id,
\* --exec-file, --uid, --gid and --chroot-base-dir and their values in this
\* order, then one --cgroup key=value per cgroup entry (each entry once), then
\* --netns and the path exactly when a namespace is configured, then "--" and
\* the extra arguments as given exactly when there are any; and it asks for a
\* new PID namespace.
C21_CommandLineLayout ==
    jail.pc \in {"spawned", "state", "cleaned"} =>
        LET a == jail.command.args
            n == Cardinality(DOMAIN config.cgroup)
            netns == IF config.network_namespace = None THEN <<>>
                     ELSE << <<"--netns">>, config.network_namespace[1] >>
            extra == IF config.firecracker_args = <<>> THEN <<>>
                     ELSE << <<"--">> >> \o config.firecracker_args
        IN /\ jail.command.program = config.jailer_binary
           /\ jail.command.unshare = {"Pid"}
           /\ Len(a) = 10 + 2 * n + Len(netns) + Len(extra)
           /\ SubSeq(a, 1, 10) =
                << <<"--id">>, config.id, <<"--exec-file">>, config.firecracker_binary,
                   <<"--uid">>, IF config.user = 0 THEN <<"0">> ELSE <<"1", "0", "0", "0">>,
                   <<"--gid">>, IF config.group = 0 THEN <<"0">> ELSE <<"1", "0", "0">>,
                   <<"--chroot-base-dir">>, config.chroot_base >>
           /\ \A i \in 1..n : a[10 + 2 * i - 1] = <<"--cgroup">>
           /\ {a[10 + 2 * i] : i \in 1..n} =
                {<<k, "=", config.cgroup[k]>> : k \in DOMAIN config.cgroup}
           /\ SubSeq(a, 11 + 2 * n, Len(a)) = netns \o extra

C21_Witness ==
    /\ jail.pc = "spawned"
    /\ config.network_namespace # None
    /\ Cardinality(DOMAIN config.cgroup) = 2
    /\ config.firecracker_args = <<>>
    /\ config.user = 1000
    /\ jail.command.args[12] = <<"cpuset.mems", "=", "0">>
    /\ jail.command.args[Len(jail.command.args)] = <<"/", "var", "run", "netns", "test">>

\* C22: the chroot path is <chroot_base>/<basename of the hypervisor
\* binary>/<id>/root; two configs have the same chroot path exactly when they
\* agree on these three; and the image directory cleanup_vm unmounts is the
\* one setup_vm mounted on, the directory it removes the parent of the chroot.
C22_ChrootPathFromThreeInputs ==
    LET Key(c) == <<c.chroot_base, c.firecracker_binary[Len(c.firecracker_binary)], c.id>>
        Expected(c) == c.chroot_base \o <<c.firecracker_binary[Len(c.firecracker_binary)]>>
                           \o c.id \o <<"root">>
    IN /\ jail.pc \in {"state", "cleaned"} =>
            /\ jail.chroot_path = Expected(config)
            /\ jail.image_path = Expected(config) \o <<"image">>
            /\ \A c \in Configs :
                chroot_path(c) # None =>
                    ((chroot_path(c) = Some(jail.chroot_path)) <=> (Key(c) = Key(config)))
       /\ jail.pc = "cleaned" =>
            /\ jail.images_dir = jail.image_path
            /\ jail.state_root \o <<"root">> = jail.chroot_path


\* C25: the JSON of a BootSource has no initrd_path member when initrd_path is
\* None and no boot_args member when boot_args is None, and the JSON can be
\* decoded back into a BootSource (whose initrd_path is then None).
C25_BootSourceRoundTrip ==
    (apiCall.op = "set_boot_source" /\ apiPc \in {"awaiting", "returned"}) =>
        \A i \in 1..Len(apiSent) :
            LET json == apiSent[i].body.json
            IN /\ apiCall.arg.initrd_path = <<>> => "initrd_path" \notin DOMAIN json
               /\ apiCall.arg.boot_args = <<>> => "boot_args" \notin DOMAIN json
               /\ "BootSource" \in DerivesDeserialize

\* C25 (amended): the JSON of a BootSource has an initrd_path member exactly
\* when initrd_path is Some, and a boot_args member exactly when boot_args is
\* Some, each holding the string; kernel_image_path is always there; and
\* BootSource is write-only: it is not among the types that can be decoded.
C25_NoneFieldsOmitted ==
    (apiCall.op = "set_boot_source" /\ apiPc \in {"awaiting", "returned"}) =>
        \A i \in 1..Len(apiSent) :
            LET json == apiSent[i].body.json
                source == apiCall.arg
                Encoded(field) ==
                    IF source[field] = <<>> THEN field \notin DOMAIN json
                    ELSE field \in DOMAIN json /\ json[field] = JStr(source[field])
            IN /\ Encoded("initrd_path")
               /\ Encoded("boot_args")
               /\ DOMAIN json \subseteq {"kernel_image_path", "boot_args", "initrd_path"}
               /\ json.kernel_image_path = JStr(source.kernel_image_path)
               /\ "BootSource" \notin DerivesDeserialize

C25_Witness ==
    /\ apiPc = "awaiting"
    /\ apiCall.op = "set_boot_source"
    /\ apiCall.arg.initrd_path = <<>>
    /\ apiCall.arg.boot_args = <<"console=ttyS0">>
    /\ Len(apiSent) = 1
    /\ DOMAIN apiSent[1].body.json = {"kernel_image_path", "boot_args"}


\* C24: a versioned network configuration or configuration list that is
\* serialised to JSON and deserialised from that JSON is the original value
\* again; in the JSON every plugin-specific member of the value is present
\* unchanged, and ipMasq false, disableCheck false, empty args, absent ipam or
\* dns and empty DNS lists have no member at all.
C24_RoundTripPreservesValue ==
    LET Present(o, field, set) == (field \in DOMAIN o) <=> set
        Preserved(other, o) == \A k \in DOMAIN other : k \in DOMAIN o /\ o[k] = other[k]
        DnsOmits(dns, o) ==
            /\ Present(o, "nameservers", dns.nameservers # <<>>)
            /\ Present(o, "domain", dns.domain # None)
            /\ Present(o, "search", dns.search # <<>>)
            /\ Present(o, "options", dns.options # <<>>)
        PluginOmits(plugin, o) ==
            /\ Present(o, "ipMasq", plugin.ip_masq)
            /\ Present(o, "args", DOMAIN plugin.args # {})
            /\ Present(o, "ipam", plugin.ipam # None)
            /\ Present(o, "dns", plugin.dns # None)
            /\ Preserved(plugin.other, o)
            /\ plugin.ipam # None => Preserved(Unwrap(plugin.ipam).other, o.ipam.v)
            /\ plugin.dns # None => DnsOmits(Unwrap(plugin.dns), o.dns.v)
    IN /\ cni.pc \in {"encoded", "decoded"} =>
            IF cni.kind = "NetworkConfiguration"
            THEN PluginOmits(cni.value.payload.plugin, cni.json.v)
            ELSE /\ Present(cni.json.v, "disableCheck", cni.value.payload.disable_check)
                 /\ Len(cni.json.v.plugins.v) = Len(cni.value.payload.plugins)
                 /\ \A i \in 1..Len(cni.value.payload.plugins) :
                        PluginOmits(cni.value.payload.plugins[i], cni.json.v.plugins.v[i].v)
       /\ cni.pc = "decoded" => cni.decoded = DOk(cni.value)

\* The bridge configuration of test_single_plugin has gone round
C24_Witness ==
    /\ cni.pc = "decoded"
    /\ cni.kind = "NetworkConfiguration"
    /\ cni.json = JObj([cniVersion |-> JStr(<<"1.0.0">>), name |-> JStr(<<"dbnet">>),
                        type |-> JStr(<<"bridge">>), bridge |-> JStr(<<"cni0">>),
                        ipam |-> JObj([type |-> JStr(<<"host-local">>),
                                       subnet |-> JStr(<<"10.1.0.0/16">>),
                                       gateway |-> JStr(<<"10.1.0.1">>)]),
                        dns |-> JObj([nameservers |-> JArr(<< JStr(<<"10.1.0.1">>) >>)])])
    /\ cni.value.payload.plugin.ip_masq = FALSE
    /\ DOMAIN cni.value.payload.plugin.args = {}
    /\ cni.value.payload.plugin.other = [bridge |-> JStr(<<"cni0">>)]
    /\ Unwrap(cni.value.payload.plugin.dns).search = <<>>
    /\ cni.decoded = DOk(cni.value)


C32_RemovalOnlyWhenUnmounted ==
    /\ \A i \in Pos("cleanup_vm", "remove_dir_all") :
        \E j \in Pos("cleanup_vm", "umount_image") : j < i /\ trace[j].res = "Ok"
    /\ pc = "cleanup_remove" => ~imageMounted
    /\ ~Happened("cleanup_vm", "remove_dir_all", "EBUSY")


\* C33: a decoded error code keeps its number: 1 to 7 and 11 are the named
\* codes, 8, 9 and 12 to 99 are Reserved with that number, and every other
\* number is Plugin with that number.
C33_ErrorCodeKeepsNumber ==
    cni.pc = "code" =>
        LET number == cni.document
            decoded == cni.decoded.value
        IN /\ cni.decoded.ok
           /\ number \in 1..7 \cup {11} =>
                decoded = Code(<<"IncompatibleCniVersion", "UnsupportedConfigurationField",
                                 "ContainerUnknown", "InvalidEnvironmentVariable", "Io",
                                 "Decode", "InvalidNetworkConfiguration", "", "", "",
                                 "Transient">>[number])
           /\ number \in {8, 9} \cup 12..99 => decoded = Reserved(number)
           /\ number \notin 1..99 \/ number = 10 => decoded = Plugin(number)

====
